---- MODULE Spec2Model ----
(***************************************************************************)
(* Verification model of the deb-packages buildpack.                       *)
(*                                                                         *)
(*   Spec         the resolver (determine_packages_to_install.rs) run      *)
(*                over a PackageIndex (debian/package_index.rs)            *)
(*   SpecInstall  the packages layer and the per-package install tasks     *)
(*                (install_packages.rs) over consecutive builds            *)
(*   SpecIndex    the release layer and the package-index layer            *)
(*                (create_package_index.rs) over consecutive builds        *)
(***************************************************************************)
EXTENDS Naturals, Integers, Sequences, FiniteSets, TLC

(***************************************************************************)
(* Bounds of the resolver inputs.                                          *)
(***************************************************************************)
\* most names a package lists in Pre-Depends and Depends together
MaxDeps == 2
\* most entries of requested_packages
MaxRequested == 2

\* the order in which the packages of the index are added
PkgOrder == <<"a", "b", "c">>
PkgNames == {PkgOrder[i] : i \in 1..Len(PkgOrder)}
\* names no package carries: they can only be provided
VirtualNames == {"v"}
Names == PkgNames \cup VirtualNames
\* dependencies on these names are declared in Pre-Depends, the others in Depends
PreDependsNames == {"c"}
\* the packages whose Provides field may list a virtual name
ProviderNames == {"b", "c"}
\* the packages the index may lack
OptionalNames == {"b", "c"}
\* the names project.toml may request
RequestNames == {"a", "b", "v"}
\* the packages /var/lib/dpkg/status may list
SystemNames == {"b", "c"}

VARIABLES
    \* ---- resolver ----
    package_index,                \* PackageIndex
    system_packages,              \* names read from /var/lib/dpkg/status
    requested,                    \* the entries of requested_packages taken so far
    packages_marked_for_install,  \* IndexSet<PackageMarkedForInstall>
    visit_stack,                  \* IndexSet<String>
    package_notifications,        \* IndexSet<PackageNotification>
    frames,                       \* activations of visit, innermost last
    marked_at_start,              \* names marked when the current request began
    resolve_pc,                   \* "idle" | "visiting" | "failed" | "done"
    resolve_error,                \* DeterminePackagesToInstallError
    packages_to_install,          \* result of determine_packages_to_install
    add_package_calls             \* the packages given to add_package, in order

VARIABLES
    \* ---- installer ----
    builds,                       \* builds started so far
    install_pc,                   \* "idle" | "start" | "installing" | "post" | "done" | "failed"
    distro,                       \* Distro of the running build
    install_list,                 \* packages_to_install of the running build
    packages_layer,               \* the layer named "packages"
    old_metadata,                 \* the metadata cached_layer found in the layer
    install_layer_state,          \* LayerState of install_layer
    task,                         \* the download_and_extract task of each package
    temp_dir,                     \* files in temp_dir(), by file name
    install_error,                \* InstallPackagesError returned by install_packages
    extraction,                   \* extract of each task: members read, postinst_script_path
    postinst_file,                \* the file postinst in the packages layer, <<>> if none
    executed,                     \* the scripts run in this build, in order, with the task
    package_config_files          \* the pkgconfig/*.pc file of each package in the layer

VARIABLES
    \* ---- package index acquisition ----
    index_builds,                 \* builds that have called create_package_index
    index_pc,                     \* position of update_source in the running build
    response,                     \* the response to GET <uri>/dists/<suite>/InRelease
    release_file_layer,           \* the layer named after the InRelease url
    release_file_state,           \* LayerState of release_file_layer
    release_old_metadata,         \* the metadata cached_layer found in that layer
    unverified_response_body,     \* response.text()
    release,                      \* Release::from(the release file), once parsed
    package_index_layers,         \* the layers named after package index urls
    list_task,                    \* the get_package_list task of each component
    index_error,                  \* CreatePackageIndexError returned to build
    build_pc,                     \* the stage DebianPackagesBuildpack::build is in
    project_toml,                 \* the project.toml of the application
    config,                       \* BuildpackConfig read from project.toml
    build_result,                 \* what build returned to the framework
    http_pc,                      \* where the retry middleware is with the current GET
    http_url,                     \* the url of the current GET
    n_past_retries,               \* the retries the middleware has made for it
    attempts,                     \* what each attempt of the current GET came to, in order
    http_result,                  \* what the middleware handed back to send()
    get_result,                   \* what each task made of its GET: "none", "Ok" or the error
    install_tree,                 \* the files under install_path, as paths relative to it
    read_dir_order,               \* the order in which the file system lists a directory
    env_pc,                       \* "installed", then "configured"
    layer_env,                    \* the LayerEnv configure_layer_environment returned
    fn_pc,                        \* the function whose argument was drawn, "done" once applied
    package_config,               \* the contents of a pkgconfig *.pc file of the layer
    new_contents,                 \* what rewrite_package_config wrote, split at its \n
    stanza,                       \* the lines of one stanza of a package index
    repository_package,           \* what RepositoryPackage::parse_parallel returned for it
    from_str_value,               \* the text given to PackageName::from_str
    from_str_result,              \* what PackageName::from_str returned for it
    relationships,                \* the Pre-Depends and Depends entries of a package
    dependency_names,             \* what get_dependencies returned for them
    reported_error,               \* the CreatePackageIndexError given to on_error
    error_message,                \* the ErrorMessage that is printed for it
    message_structure,            \* the MessageStructure given to CertHelper::check
    check_result                  \* what CertHelper::check returned for it

resolverVars == <<package_index, system_packages, requested,
                  packages_marked_for_install, visit_stack, package_notifications,
                  frames, marked_at_start, resolve_pc, resolve_error,
                  packages_to_install, add_package_calls>>

installVars == <<builds, install_pc, distro, install_list, packages_layer, old_metadata,
                 install_layer_state, task, temp_dir, install_error,
                 extraction, postinst_file, executed, package_config_files>>

indexVars == <<index_builds, index_pc, response, release_file_layer, release_file_state,
               release_old_metadata, unverified_response_body, release,
               package_index_layers, list_task, index_error>>

buildVars == <<build_pc, project_toml, config, build_result>>

httpVars == <<http_pc, http_url, n_past_retries, attempts, http_result, get_result>>

envVars == <<install_tree, read_dir_order, env_pc, layer_env>>

packageConfigVars == <<package_config, new_contents>>
stanzaVars == <<stanza, repository_package>>
packageNameVars == <<from_str_value, from_str_result>>
relationshipVars == <<relationships, dependency_names>>
errorVars == <<reported_error, error_message>>
structureVars == <<message_structure, check_result>>
fnVars == <<fn_pc, packageConfigVars, stanzaVars, packageNameVars, relationshipVars, errorVars,
            structureVars>>

\* what the resolver, the installer and the index acquisition leave alone
outsideResolver == <<installVars, indexVars, buildVars, httpVars, envVars, fnVars>>

outsideInstall == <<resolverVars, indexVars, buildVars, httpVars, envVars, fnVars>>

outsideIndex == <<resolverVars, installVars, buildVars, httpVars, envVars, fnVars>>

vars == <<resolverVars, installVars, indexVars, buildVars, httpVars, envVars, fnVars>>

(***************************************************************************)
(* Helpers on sequences used as IndexSet / Vec.                            *)
(***************************************************************************)
Range(s) == {s[i] : i \in 1..Len(s)}

\* IndexSet::insert: append unless already present
IndexSetInsert(s, x) == IF x \in Range(s) THEN s ELSE Append(s, x)

\* IndexSet::shift_remove: drop the element, keep the order of the rest
IndexSetShiftRemove(s, x) == SelectSeq(s, LAMBDA y : y # x)

\* IndexSet::first().cloned().unwrap_or(d)
FirstOr(s, d) == IF Len(s) = 0 THEN d ELSE s[1]

(***************************************************************************)
(* RepositoryPackage (debian/repository_package.rs).                       *)
(***************************************************************************)
\* SHA-256 of a byte string, hex-formatted: a collision-free tagging of the bytes
Sha256(bytes) == <<"sha256">> \o bytes

\* the bytes the repository publishes for a package: one .deb per name and version
DebBytes(name, version) == <<name, version>>

\* the Version field of a stanza, [epoch:]upstream[-revision]: the epoch and the
\* revision are <<>> when the text has none, the upstream part is numbered in
\* the order Debian gives upstream versions
VersionString(epoch, upstream, revision) ==
    [epoch |-> epoch, upstream |-> upstream, revision |-> revision]

\* a version with neither epoch nor revision
PlainVersion(upstream) == VersionString(<<>>, upstream, <<>>)

\* debversion::Version::from_str and the parts its Ord compares: a missing
\* epoch and a missing revision count as 0
explode(v) ==
    <<IF v.epoch = <<>> THEN 0 ELSE v.epoch[1],
      v.upstream,
      IF v.revision = <<>> THEN 0 ELSE v.revision[1]>>

\* Ord::cmp of two versions: by epoch, then upstream, then revision
version_cmp(a, b) ==
    LET x == explode(a)
        y == explode(b)
        differ == {i \in 1..3 : x[i] # y[i]}
    IN IF differ = {} THEN "Equal"
       ELSE LET i == CHOOSE k \in differ : \A l \in differ : k <= l
            IN IF x[i] < y[i] THEN "Less" ELSE "Greater"

\* a stanza of a verified index names the file and its checksum; the index file
\* it was read from gives the repository_uri
RepositoryPackageFrom(repository_uri, name, version, pre_depends, depends, provides) ==
    [repository_uri |-> repository_uri, name |-> name, version |-> version,
     filename |-> <<"pool", name, version>>,
     sha256sum |-> Sha256(DebBytes(name, version)),
     pre_depends |-> pre_depends, depends |-> depends, provides |-> provides]

RepositoryPackage(name, version, pre_depends, depends, provides) ==
    RepositoryPackageFrom("repo", name, PlainVersion(version), pre_depends, depends,
                          provides)

NoPackage == RepositoryPackage("", 0, {}, {}, {})

\* the names of Pre-Depends and Depends, as one set
get_dependencies(p) == p.pre_depends \cup p.depends

provides_dependencies(p) == p.provides

(***************************************************************************)
(* PackageIndex (debian/package_index.rs).                                 *)
(***************************************************************************)
EmptyIndex ==
    [name_to_repository_packages |-> [n \in Names |-> <<>>],
     virtual_package_to_implementing_packages |-> [n \in Names |-> <<>>],
     packages_indexed |-> 0]

add_package_NameOnly(idx, p) ==
    [name_to_repository_packages |->
        [idx.name_to_repository_packages EXCEPT ![p.name] = Append(@, p)],
     virtual_package_to_implementing_packages |-> idx.virtual_package_to_implementing_packages,
     packages_indexed |-> idx.packages_indexed + 1]

add_package(idx, p) ==
    [name_to_repository_packages |->
        [idx.name_to_repository_packages EXCEPT ![p.name] = Append(@, p)],
     virtual_package_to_implementing_packages |->
        [n \in Names |->
            IF n \in provides_dependencies(p)
            THEN Append(idx.virtual_package_to_implementing_packages[n], p)
            ELSE idx.virtual_package_to_implementing_packages[n]],
     packages_indexed |-> idx.packages_indexed + 1]

get_highest_available_version_FirstAdded(idx, name) ==
    LET ps == idx.name_to_repository_packages[name] IN
    IF Len(ps) = 0 THEN NoPackage ELSE ps[1]

\* the stable sort by descending version keeps, among the greatest versions,
\* the one that was added first
get_highest_available_version(idx, name) ==
    LET ps == idx.name_to_repository_packages[name] IN
    IF Len(ps) = 0 THEN NoPackage
    ELSE LET best == CHOOSE i \in 1..Len(ps) :
                        /\ \A j \in 1..Len(ps) :
                              version_cmp(ps[j].version, ps[i].version) # "Greater"
                        /\ \A j \in 1..(i - 1) :
                              version_cmp(ps[j].version, ps[i].version) = "Less"
         IN ps[best]

get_providers_FirstOnly(idx, name) ==
    LET ps == idx.virtual_package_to_implementing_packages[name] IN
    IF Len(ps) = 0 THEN {} ELSE {ps[1].name}

get_providers(idx, name) ==
    {p.name : p \in Range(idx.virtual_package_to_implementing_packages[name])}

(***************************************************************************)
(* Resolver (determine_packages_to_install.rs).                            *)
(***************************************************************************)
NoError == [type |-> "none", package |-> "", providers |-> {}]

PackageNotFound(name) ==
    [type |-> "PackageNotFound", package |-> name, providers |-> {}]

VirtualPackageMustBeSpecified(name, providers) ==
    [type |-> "VirtualPackageMustBeSpecified", package |-> name, providers |-> providers]

\* PackageNotification, every variant in one record shape
Added(p, dependency_path) ==
    [type |-> "Added", name |-> p.name, version |-> p.version, detail |-> dependency_path]

AlreadyInstalledOnSystem(name) ==
    [type |-> "AlreadyInstalledOnSystem", name |-> name, version |-> PlainVersion(0),
     detail |-> <<>>]

AlreadyInstalledByOtherPackage(p, installed_by) ==
    [type |-> "AlreadyInstalledByOtherPackage", name |-> p.name, version |-> p.version,
     detail |-> <<installed_by>>]

VirtualPackageHasOnlyOneImplementor(requested_package, p) ==
    [type |-> "VirtualPackageHasOnlyOneImplementor", name |-> p.name,
     version |-> p.version, detail |-> <<requested_package>>]

PackageMarkedForInstall(p, requested_by) ==
    [repository_package |-> p, requested_by |-> requested_by]

RequestedPackage(name, skip_dependencies) ==
    [name |-> name, skip_dependencies |-> skip_dependencies]

find_system_package_by_name_Never(name, system) == FALSE

find_system_package_by_name(name, system) == name \in system

MarkedNames(marked) == {marked[i].repository_package.name : i \in 1..Len(marked)}

\* Some(first entry with that name) as the set of its positions' minimum, None as 0
find_package_marked_for_install_by_name_Never(name, marked) == 0

find_package_marked_for_install_by_name_ByRequester(name, marked) ==
    LET hits == {i \in 1..Len(marked) : marked[i].requested_by = name} IN
    IF hits = {} THEN 0 ELSE CHOOSE i \in hits : \A j \in hits : i <= j

find_package_marked_for_install_by_name(name, marked) ==
    LET hits == {i \in 1..Len(marked) : marked[i].repository_package.name = name} IN
    IF hits = {} THEN 0 ELSE CHOOSE i \in hits : \A j \in hits : i <= j

should_visit_dependency_OnSystemOnly(dependency, system, marked) ==
    /\ find_system_package_by_name(dependency, system)
    /\ find_package_marked_for_install_by_name(dependency, marked) = 0

should_visit_dependency(dependency, system, marked) ==
    /\ ~find_system_package_by_name(dependency, system)
    /\ find_package_marked_for_install_by_name(dependency, marked) = 0

\* a call of visit that has not returned: where it stands, and the visit_stack
\* it was entered with
CallFrame(name, entered_with) ==
    [kind |-> "call", package |-> name, repository_package |-> NoPackage, todo |-> {},
     entered_with |-> entered_with]

DepsFrame(name, p, todo, entered_with) ==
    [kind |-> "deps", package |-> name, repository_package |-> p, todo |-> todo,
     entered_with |-> entered_with]

VirtualFrame(name, p, entered_with) ==
    [kind |-> "virtual", package |-> name, repository_package |-> p, todo |-> {},
     entered_with |-> entered_with]

Top == frames[Len(frames)]
Pop == SubSeq(frames, 1, Len(frames) - 1)
Request == requested[Len(requested)]
Calling == resolve_pc = "visiting" /\ Len(frames) > 0 /\ Top.kind = "call"

\* the for loop of determine_packages_to_install takes the next requested package
\* and calls visit with an empty visit_stack and empty package_notifications
\* (project.toml is taken to list each package name once)
StartRequest(name, skip) ==
    /\ resolve_pc = "idle"
    /\ Len(requested) < MaxRequested
    /\ \A i \in 1..Len(requested) : requested[i].name # name
    /\ requested' = Append(requested, RequestedPackage(name, skip))
    /\ visit_stack' = <<>>
    /\ package_notifications' = <<>>
    /\ frames' = <<CallFrame(name, <<>>)>>
    /\ marked_at_start' = MarkedNames(packages_marked_for_install)
    /\ resolve_pc' = "visiting"
    /\ UNCHANGED <<package_index, system_packages, packages_marked_for_install,
                   resolve_error, packages_to_install>>
    /\ UNCHANGED <<add_package_calls, outsideResolver>>

\* visit: the package is on the system
VisitAlreadyOnSystem ==
    /\ Calling
    /\ find_system_package_by_name(Top.package, system_packages)
    /\ package_notifications' =
          IndexSetInsert(package_notifications, AlreadyInstalledOnSystem(Top.package))
    /\ frames' = Pop
    /\ UNCHANGED <<package_index, system_packages, requested, packages_marked_for_install,
                   visit_stack, marked_at_start, resolve_pc, resolve_error,
                   packages_to_install>>
    /\ UNCHANGED <<add_package_calls, outsideResolver>>

\* visit: the package is already marked for install
VisitAlreadyMarked ==
    /\ Calling
    /\ ~find_system_package_by_name(Top.package, system_packages)
    /\ LET i == find_package_marked_for_install_by_name(Top.package,
                                                        packages_marked_for_install) IN
       /\ i # 0
       /\ package_notifications' =
             IndexSetInsert(package_notifications,
                 AlreadyInstalledByOtherPackage(
                     packages_marked_for_install[i].repository_package,
                     packages_marked_for_install[i].requested_by))
    /\ frames' = Pop
    /\ UNCHANGED <<package_index, system_packages, requested, packages_marked_for_install,
                   visit_stack, marked_at_start, resolve_pc, resolve_error,
                   packages_to_install>>
    /\ UNCHANGED <<add_package_calls, outsideResolver>>

NotSkippedAtEntry(name) ==
    /\ ~find_system_package_by_name(name, system_packages)
    /\ find_package_marked_for_install_by_name(name, packages_marked_for_install) = 0

DependenciesToVisit_NoSkip(p, skip_dependencies) == get_dependencies(p)

\* if !skip_dependencies { for dependency in repository_package.get_dependencies() ..
DependenciesToVisit(p, skip_dependencies) ==
    IF skip_dependencies THEN {} ELSE get_dependencies(p)

\* visit: the index has a package of that name; mark its highest version
VisitAdd ==
    /\ Calling
    /\ NotSkippedAtEntry(Top.package)
    /\ LET p == get_highest_available_version(package_index, Top.package) IN
       /\ p # NoPackage
       /\ packages_marked_for_install' =
             IndexSetInsert(packages_marked_for_install,
                 PackageMarkedForInstall(p, FirstOr(visit_stack, Top.package)))
       /\ package_notifications' =
             IndexSetInsert(package_notifications, Added(p, visit_stack))
       /\ visit_stack' = IndexSetInsert(visit_stack, p.name)
       /\ frames' = Append(Pop, DepsFrame(Top.package, p,
                        DependenciesToVisit(p, Request.skip_dependencies),
                        Top.entered_with))
    /\ UNCHANGED <<package_index, system_packages, requested, marked_at_start,
                   resolve_pc, resolve_error, packages_to_install>>
    /\ UNCHANGED <<add_package_calls, outsideResolver>>

VisitDependency_BreakAfterFirst ==
    /\ resolve_pc = "visiting" /\ Len(frames) > 0 /\ Top.kind = "deps"
    /\ \E dependency \in Top.todo :
        LET rest == [Top EXCEPT !.todo = {}] IN
        frames' = IF should_visit_dependency(dependency, system_packages,
                                             packages_marked_for_install)
                  THEN Append(Append(Pop, rest), CallFrame(dependency, visit_stack))
                  ELSE Append(Pop, rest)
    /\ UNCHANGED <<package_index, system_packages, requested, packages_marked_for_install,
                   visit_stack, package_notifications, marked_at_start, resolve_pc,
                   resolve_error, packages_to_install>>
    /\ UNCHANGED <<add_package_calls, outsideResolver>>

\* the for loop over get_dependencies(): a HashSet, iterated in any order
VisitDependency ==
    /\ resolve_pc = "visiting" /\ Len(frames) > 0 /\ Top.kind = "deps"
    /\ \E dependency \in Top.todo :
        LET rest == [Top EXCEPT !.todo = @ \ {dependency}] IN
        frames' = IF should_visit_dependency(dependency, system_packages,
                                             packages_marked_for_install)
                  THEN Append(Append(Pop, rest), CallFrame(dependency, visit_stack))
                  ELSE Append(Pop, rest)
    /\ UNCHANGED <<package_index, system_packages, requested, packages_marked_for_install,
                   visit_stack, package_notifications, marked_at_start, resolve_pc,
                   resolve_error, packages_to_install>>
    /\ UNCHANGED <<add_package_calls, outsideResolver>>

\* visit: the loop is over; visit_stack.shift_remove(&repository_package.name)
ReturnFromPackage ==
    /\ resolve_pc = "visiting" /\ Len(frames) > 0 /\ Top.kind = "deps"
    /\ Top.todo = {}
    /\ visit_stack' = IndexSetShiftRemove(visit_stack, Top.repository_package.name)
    /\ frames' = Pop
    /\ UNCHANGED <<package_index, system_packages, requested, packages_marked_for_install,
                   package_notifications, marked_at_start, resolve_pc, resolve_error,
                   packages_to_install>>
    /\ UNCHANGED <<add_package_calls, outsideResolver>>

VisitVirtualProvider_ProvidersFirst ==
    /\ Calling
    /\ NotSkippedAtEntry(Top.package)
    /\ LET providers == get_providers(package_index, Top.package) IN
       /\ Cardinality(providers) = 1
       /\ LET p == get_highest_available_version(package_index,
                                                 CHOOSE n \in providers : TRUE) IN
          /\ p # NoPackage
          /\ package_notifications' =
                IndexSetInsert(package_notifications,
                    VirtualPackageHasOnlyOneImplementor(Top.package, p))
          /\ visit_stack' = IndexSetInsert(visit_stack, Top.package)
          /\ frames' = Append(Append(Pop, VirtualFrame(Top.package, p, Top.entered_with)),
                              CallFrame(p.name, IndexSetInsert(visit_stack, Top.package)))
    /\ UNCHANGED <<package_index, system_packages, requested, packages_marked_for_install,
                   marked_at_start, resolve_pc, resolve_error, packages_to_install>>
    /\ UNCHANGED <<add_package_calls, outsideResolver>>

\* visit, no package of that name: get_provider_for_virtual_package finds exactly one
\* providing name; visit its highest version with the virtual name on the stack
VisitVirtualProvider ==
    /\ Calling
    /\ NotSkippedAtEntry(Top.package)
    /\ get_highest_available_version(package_index, Top.package) = NoPackage
    /\ LET providers == get_providers(package_index, Top.package) IN
       /\ Cardinality(providers) = 1
       /\ LET p == get_highest_available_version(package_index,
                                                 CHOOSE n \in providers : TRUE) IN
          /\ p # NoPackage
          /\ package_notifications' =
                IndexSetInsert(package_notifications,
                    VirtualPackageHasOnlyOneImplementor(Top.package, p))
          /\ visit_stack' = IndexSetInsert(visit_stack, Top.package)
          /\ frames' = Append(Append(Pop, VirtualFrame(Top.package, p, Top.entered_with)),
                              CallFrame(p.name, IndexSetInsert(visit_stack, Top.package)))
    /\ UNCHANGED <<package_index, system_packages, requested, packages_marked_for_install,
                   marked_at_start, resolve_pc, resolve_error, packages_to_install>>
    /\ UNCHANGED <<add_package_calls, outsideResolver>>

\* get_provider_for_virtual_package: no provider (or a provider without a package)
VisitPackageNotFound ==
    /\ Calling
    /\ NotSkippedAtEntry(Top.package)
    /\ get_highest_available_version(package_index, Top.package) = NoPackage
    /\ LET providers == get_providers(package_index, Top.package) IN
       \/ providers = {}
       \/ /\ Cardinality(providers) = 1
          /\ get_highest_available_version(package_index,
                                           CHOOSE n \in providers : TRUE) = NoPackage
    /\ resolve_error' = PackageNotFound(Top.package)
    /\ resolve_pc' = "failed"
    /\ UNCHANGED <<package_index, system_packages, requested, packages_marked_for_install,
                   visit_stack, package_notifications, frames, marked_at_start,
                   packages_to_install>>
    /\ UNCHANGED <<add_package_calls, outsideResolver>>

\* get_provider_for_virtual_package: two or more providing names
VisitVirtualPackageMustBeSpecified ==
    /\ Calling
    /\ NotSkippedAtEntry(Top.package)
    /\ get_highest_available_version(package_index, Top.package) = NoPackage
    /\ LET providers == get_providers(package_index, Top.package) IN
       /\ Cardinality(providers) > 1
       /\ resolve_error' = VirtualPackageMustBeSpecified(Top.package, providers)
    /\ resolve_pc' = "failed"
    /\ UNCHANGED <<package_index, system_packages, requested, packages_marked_for_install,
                   visit_stack, package_notifications, frames, marked_at_start,
                   packages_to_install>>
    /\ UNCHANGED <<add_package_calls, outsideResolver>>

\* visit of the provider returned; visit_stack.shift_remove(package)
ReturnFromVirtual ==
    /\ resolve_pc = "visiting" /\ Len(frames) > 0 /\ Top.kind = "virtual"
    /\ visit_stack' = IndexSetShiftRemove(visit_stack, Top.package)
    /\ frames' = Pop
    /\ UNCHANGED <<package_index, system_packages, requested, packages_marked_for_install,
                   package_notifications, marked_at_start, resolve_pc, resolve_error,
                   packages_to_install>>
    /\ UNCHANGED <<add_package_calls, outsideResolver>>

\* the outermost visit returned Ok: the notifications are logged, next request
FinishRequest ==
    /\ resolve_pc = "visiting" /\ Len(frames) = 0
    /\ resolve_pc' = "idle"
    /\ UNCHANGED <<package_index, system_packages, requested, packages_marked_for_install,
                   visit_stack, package_notifications, frames, marked_at_start,
                   resolve_error, packages_to_install>>
    /\ UNCHANGED <<add_package_calls, outsideResolver>>

\* every requested package is resolved: collect the repository packages, in order
CollectPackagesToInstall ==
    /\ resolve_pc = "idle" /\ Len(requested) > 0
    /\ packages_to_install' =
          [i \in 1..Len(packages_marked_for_install) |->
              packages_marked_for_install[i].repository_package]
    /\ resolve_pc' = "done"
    /\ UNCHANGED <<package_index, system_packages, requested, packages_marked_for_install,
                   visit_stack, package_notifications, frames, marked_at_start,
                   resolve_error>>
    /\ UNCHANGED <<add_package_calls, outsideResolver>>

(***************************************************************************)
(* The indexes and system-package sets the resolver is run on.             *)
(***************************************************************************)
DepSets == {d \in SUBSET Names : Cardinality(d) <= MaxDeps}

\* the stanza of each package name, or NoPackage when the index has none
Stanzas ==
    {st \in [PkgNames -> [present : BOOLEAN, deps : DepSets, provides : SUBSET VirtualNames]] :
        \A n \in PkgNames :
            /\ n \notin st[n].deps
            /\ n \notin OptionalNames => st[n].present
            /\ ~st[n].present => st[n].deps = {} /\ st[n].provides = {}
            /\ n \notin ProviderNames => st[n].provides = {}}

RECURSIVE PackagesOf(_, _)
PackagesOf(st, i) ==
    IF i > Len(PkgOrder) THEN <<>>
    ELSE LET n == PkgOrder[i] IN
         (IF st[n].present
          THEN <<RepositoryPackage(n, 1, st[n].deps \cap PreDependsNames,
                                   st[n].deps \ PreDependsNames, st[n].provides)>>
          ELSE <<>>) \o PackagesOf(st, i + 1)

RECURSIVE BuildIndexRev(_, _)
BuildIndexRev(ps, n) ==
    IF n = 0 THEN EmptyIndex ELSE add_package(BuildIndexRev(ps, n - 1), ps[n])

ResolverInit ==
    /\ \E st \in Stanzas :
          /\ package_index = BuildIndexRev(PackagesOf(st, 1), Len(PackagesOf(st, 1)))
          /\ add_package_calls = PackagesOf(st, 1)
    /\ system_packages \in SUBSET SystemNames
    /\ requested = <<>>
    /\ packages_marked_for_install = <<>>
    /\ visit_stack = <<>>
    /\ package_notifications = <<>>
    /\ frames = <<>>
    /\ marked_at_start = {}
    /\ resolve_pc = "idle"
    /\ resolve_error = NoError
    /\ packages_to_install = <<>>

\* package names that other packages may list in their Provides field
ShadowedNames == {"a"}

\* most dependencies of a package of such an index
MaxShadowDeps == 1

\* indexes in which a package provides the name of a package of the index
ShadowingStanzas ==
    {st \in [PkgNames -> [present : BOOLEAN, deps : SUBSET Names,
                          provides : SUBSET (VirtualNames \cup ShadowedNames)]] :
        /\ \A n \in PkgNames :
              /\ Cardinality(st[n].deps) <= MaxShadowDeps
              /\ n \notin st[n].deps
              /\ n \notin st[n].provides
              /\ n \notin OptionalNames => st[n].present
              /\ ~st[n].present => st[n].deps = {} /\ st[n].provides = {}
              /\ n \notin ProviderNames => st[n].provides = {}
        /\ \E n \in PkgNames : st[n].provides \cap ShadowedNames # {}}

ResolverInitShadowed ==
    /\ \E st \in ShadowingStanzas :
          /\ package_index = BuildIndexRev(PackagesOf(st, 1), Len(PackagesOf(st, 1)))
          /\ add_package_calls = PackagesOf(st, 1)
    /\ system_packages \in SUBSET SystemNames
    /\ requested = <<>>
    /\ packages_marked_for_install = <<>>
    /\ visit_stack = <<>>
    /\ package_notifications = <<>>
    /\ frames = <<>>
    /\ marked_at_start = {}
    /\ resolve_pc = "idle"
    /\ resolve_error = NoError
    /\ packages_to_install = <<>>

(***************************************************************************)
(* build_package_index: the packages the read_packages tasks hand back are *)
(* added in the order the tasks complete.                                  *)
(***************************************************************************)
\* most packages added to the index before it is used
MaxIndexed == 3

\* the repositories whose index files list the package
RepositoryUris == {"repo", "security"}

\* versions 1, 0:1, 1-0, 1-1, 2 and 1:1
IndexedVersions ==
    {PlainVersion(1), VersionString(<<0>>, 1, <<>>), VersionString(<<>>, 1, <<0>>),
     VersionString(<<>>, 1, <<1>>), PlainVersion(2), VersionString(<<1>>, 1, <<>>)}

IndexedPackages ==
    {RepositoryPackageFrom(u, "a", v, {}, {}, {}) : u \in RepositoryUris, v \in IndexedVersions}

\* the packages a repository may list: a and b with and without Provides, and
\* a package whose own name is the virtual name that b may provide
ProvidingPackages ==
    {RepositoryPackage("a", 1, {}, {}, {}), RepositoryPackage("a", 2, {}, {}, {"v"}),
     RepositoryPackage("b", 1, {}, {}, {"v"}), RepositoryPackage("b", 2, {}, {}, {"v", "c"}),
     RepositoryPackage("c", 1, {}, {}, {}), RepositoryPackage("v", 1, {}, {}, {})}

\* for package in packages { package_index.add_package(package) }
AddPackage(p) ==
    /\ resolve_pc = "indexing"
    /\ package_index.packages_indexed < MaxIndexed
    /\ package_index' = add_package(package_index, p)
    /\ add_package_calls' = Append(add_package_calls, p)
    /\ UNCHANGED <<system_packages, requested, packages_marked_for_install, visit_stack,
                   package_notifications, frames, marked_at_start, resolve_pc,
                   resolve_error, packages_to_install>>
    /\ UNCHANGED outsideResolver

\* every read_packages task was joined: the index goes to the resolver
BuildPackageIndexDone ==
    /\ resolve_pc = "indexing"
    /\ resolve_pc' = "idle"
    /\ UNCHANGED <<package_index, system_packages, requested, packages_marked_for_install,
                   visit_stack, package_notifications, frames, marked_at_start,
                   resolve_error, packages_to_install>>
    /\ UNCHANGED <<add_package_calls, outsideResolver>>

\* PackageIndex::default(), no package on the system
PackageIndexInit ==
    /\ package_index = EmptyIndex
    /\ add_package_calls = <<>>
    /\ system_packages = {}
    /\ requested = <<>>
    /\ packages_marked_for_install = <<>>
    /\ visit_stack = <<>>
    /\ package_notifications = <<>>
    /\ frames = <<>>
    /\ marked_at_start = {}
    /\ resolve_pc = "indexing"
    /\ resolve_error = NoError
    /\ packages_to_install = <<>>

\* the index is built and then resolved against; the packages added have no
\* relationship fields and nothing is on the system, so of visit only the
\* branches below can be taken
PackageIndexNext ==
    \/ \E p \in IndexedPackages : AddPackage(p)
    \/ BuildPackageIndexDone
    \/ \E name \in RequestNames, skip \in BOOLEAN : StartRequest(name, skip)
    \/ VisitAdd
    \/ ReturnFromPackage
    \/ VisitPackageNotFound
    \/ FinishRequest
    \/ CollectPackagesToInstall

ResolverNext ==
    \/ \E name \in RequestNames, skip \in BOOLEAN : StartRequest(name, skip)
    \/ VisitAlreadyOnSystem
    \/ VisitAlreadyMarked
    \/ VisitAdd
    \/ VisitDependency
    \/ ReturnFromPackage
    \/ VisitVirtualProvider
    \/ VisitPackageNotFound
    \/ VisitVirtualPackageMustBeSpecified
    \/ ReturnFromVirtual
    \/ FinishRequest
    \/ CollectPackagesToInstall

(***************************************************************************)
(* Layers (libcnb cached_layer as called by this buildpack).               *)
(***************************************************************************)
NoMetadata == [valid |-> FALSE, value |-> <<>>]

\* metadata of another shape than the one the layer definition deserializes
InvalidMetadata == [valid |-> FALSE, value |-> <<"unreadable">>]

Metadata(value) == [valid |-> TRUE, value |-> value]

NoLayer == [exists |-> FALSE, metadata |-> NoMetadata, files |-> {}]

EmptyLayer == [exists |-> TRUE, metadata |-> NoMetadata, files |-> {}]

LayerState(state, cause) == [state |-> state, cause |-> cause]

\* context.cached_layer with invalid_metadata_action = DeleteLayer: the layer and
\* the LayerState it is handed back in
cached_layer(layer, action) ==
    IF ~layer.exists
    THEN [layer |-> EmptyLayer, state |-> LayerState("Empty", "NewlyCreated")]
    ELSE IF ~layer.metadata.valid
    THEN [layer |-> EmptyLayer, state |-> LayerState("Empty", "InvalidMetadataAction")]
    ELSE IF action = "KeepLayer"
    THEN [layer |-> layer, state |-> LayerState("Restored", "")]
    ELSE [layer |-> EmptyLayer, state |-> LayerState("Empty", "RestoredLayerAction")]

write_metadata(layer, metadata) == [layer EXCEPT !.metadata = metadata]

(***************************************************************************)
(* Functions on text: a string is the sequence of its tokens.              *)
(***************************************************************************)
MaxLines == 2

\* str::strip_prefix: the rest of the text when it begins with the prefix
starts_with(text, prefix) == Len(text) >= 1 /\ text[1] = prefix

strip_prefix(text) == Tail(text)

trim_start_matches_Once(text, c) ==
    IF Len(text) > 0 /\ text[1] = c THEN Tail(text) ELSE text

\* str::trim_start_matches(c): every leading c is taken off
RECURSIVE trim_start_matches(_, _)
trim_start_matches(text, c) ==
    IF Len(text) > 0 /\ text[1] = c THEN trim_start_matches(Tail(text), c) ELSE text

\* Path::join of a relative path: a separator, then the path
PathJoin(path, relative) == path \o <<"/">> \o relative

\* the layer directory the packages were installed into
install_path == <<"/", "L">>

\* the lines a *.pc file may have and how a line may end
PackageConfigLines ==
    {<<"prefix=", "/", "usr">>, <<"prefix=", "/", "/", "usr">>, <<"prefix=", "usr">>,
     <<"prefix=">>, <<"exec_", "prefix=", "/", "usr">>, <<" ", "prefix=", "/", "usr">>,
     <<"Name:", " ", "x">>, <<>>}

LineEnds == {"\n", "\r\n", ""}

\* the files: only the last line may lack its line ending, and then it is not
\* empty
PackageConfigs ==
    UNION {{f \in [1..n -> [text : PackageConfigLines, end : LineEnds]] :
              /\ \A i \in 1..(n - 1) : f[i].end # ""
              /\ n > 0 /\ f[n].end = "" => f[n].text # <<>>} : n \in 0..MaxLines}

\* str::lines: the lines without their endings
lines(contents) == [i \in 1..Len(contents) |-> contents[i].text]

\* the closure mapped over the lines
rewrite_line(line) ==
    IF starts_with(line, "prefix=")
    THEN <<"prefix=">> \o PathJoin(install_path, trim_start_matches(strip_prefix(line), "/"))
    ELSE line

\* join("\n") of the lines, as the pieces between the \n of the string
join(strings) == IF Len(strings) = 0 THEN <<<<>>>> ELSE strings

(***************************************************************************)
(* Installer (install_packages.rs).                                        *)
(***************************************************************************)
\* most consecutive builds of one application
MaxBuilds == 2

\* the packages the resolver may hand to install_packages, in its order
InstallOrder == <<"a", "b">>
InstallNames == Range(InstallOrder)
Distros == {"ubuntu-22.04", "ubuntu-24.04"}
\* the version the index of a build offers for its packages
IndexVersions == {1, 2, 3}
\* what a GET of a package's download url yields
DownloadOutcomes == {"ok", "corrupt", "error"}

InstallationMetadata(d, packages) ==
    Metadata([distro |-> d,
              package_checksums |-> {<<packages[i].name, packages[i].sha256sum>> :
                                        i \in 1..Len(packages)}])

install_restored_layer_action_AlwaysKeep(old, new) == "KeepLayer"

install_restored_layer_action_KeepEqual(old, new) ==
    IF old = new THEN "KeepLayer" ELSE "DeleteLayer"

\* restored_layer_action of the packages layer: both branches delete
install_restored_layer_action(old, new) ==
    IF old = new THEN "DeleteLayer" ELSE "DeleteLayer"

build_download_url(p) == <<p.repository_uri>> \o p.filename

\* PathBuf::from(filename).file_name(): the last segments name the file
download_file_name(p) == SubSeq(p.filename, 2, Len(p.filename))

NoInstallError == [type |-> "none", url |-> <<>>, expected |-> <<>>, actual |-> <<>>]

RequestPackage(p) ==
    [type |-> "RequestPackage", url |-> build_download_url(p), expected |-> <<>>,
     actual |-> <<>>]

ChecksumFailed(url, expected, actual) ==
    [type |-> "ChecksumFailed", url |-> url, expected |-> expected, actual |-> actual]

\* the bytes a GET of the package's url streams
ServedBytes(p, outcome) ==
    IF outcome = "ok" THEN DebBytes(p.name, p.version)
    ELSE Append(DebBytes(p.name, p.version), "corrupt")

NoTask == [pc |-> "none", calculated_hash |-> <<>>, error |-> NoInstallError]

download_Unchecked(p, outcome) ==
    IF outcome = "error"
    THEN [pc |-> "failed", calculated_hash |-> <<>>, error |-> RequestPackage(p)]
    ELSE [pc |-> "downloaded", calculated_hash |-> Sha256(ServedBytes(p, outcome)),
          error |-> NoInstallError]

\* download: the task after the response was copied to the file and hashed
download(p, outcome) ==
    IF outcome = "error"
    THEN [pc |-> "failed", calculated_hash |-> <<>>, error |-> RequestPackage(p)]
    ELSE LET calculated_hash == Sha256(ServedBytes(p, outcome)) IN
         IF p.sha256sum # calculated_hash
         THEN [pc |-> "failed", calculated_hash |-> calculated_hash,
               error |-> ChecksumFailed(build_download_url(p), p.sha256sum, calculated_hash)]
         ELSE [pc |-> "downloaded", calculated_hash |-> calculated_hash,
               error |-> NoInstallError]

\* what unpacking the data.tar member of a .deb puts into the layer
Unpack(bytes) == {<<"data">> \o bytes}

\* no file of that path
NoFile == <<>>

\* the usr/lib/pkgconfig/*.pc file the data.tar member of a .deb holds: the
\* .deb of a has prefix=/usr and a Name line, that of b has prefix=//opt as
\* its last line, without a line ending
PackageConfigOf(bytes) ==
    IF bytes[1] = "a"
    THEN <<[text |-> <<"prefix=", "/", "usr">>, end |-> "\n"],
           [text |-> <<"Name:", " ", "x">>, end |-> "\n"]>>
    ELSE <<[text |-> <<"Name:", " ", "x">>, end |-> "\r\n"],
           [text |-> <<"prefix=", "/", "/", "opt">>, end |-> ""]>>

\* a member of the ar archive: the file stem and extension of its identifier
\* and, for a tar member, the paths of its entries
ArMember(file_stem, extension, entries) ==
    [file_stem |-> file_stem, extension |-> extension, entries |-> entries]

DebianBinary == ArMember("debian-binary", "", {})

ControlTar(extension, entries) == ArMember("control.tar", extension, entries)

DataTar(extension) == ArMember("data.tar", extension, {"usr"})

\* the .deb files the repository publishes, by package name and upstream
\* version: their members, in the order of the archive
DebArchive(bytes) ==
    LET name == bytes[1]
        upstream == bytes[2].upstream
    IN CASE name = "a" /\ upstream = 1 ->
              <<DebianBinary, ControlTar("gz", {"control", "preinst", "postinst"}),
                DataTar("gz")>>
         [] name = "b" /\ upstream = 1 ->
              <<DebianBinary, ControlTar("xz", {"control", "postinst"}), DataTar("xz")>>
         [] name = "a" /\ upstream = 2 ->
              <<DebianBinary, ControlTar("zst", {"control"}), DataTar("zst")>>
         [] name = "b" /\ upstream = 2 ->
              <<DebianBinary, ControlTar("bz2", {"control"}), DataTar("gz")>>
         [] name = "a" /\ upstream = 3 ->
              <<DebianBinary, ControlTar("gz", {"control"}), DataTar("lzma")>>
         [] OTHER ->
              <<DebianBinary, ControlTar("zstd", {"control", "postinst"}), DataTar("zstd")>>

\* the entry of that path in the control archive of a .deb
ControlEntry(bytes, path) == <<path>> \o bytes

\* the extensions extract has a decoder for
SupportedCompression == {"gz", "zstd", "zst", "xz"}

UnsupportedCompression(path, compression) ==
    [type |-> "UnsupportedCompression", path |-> path, compression |-> compression]

NoExtraction == [entry |-> 0, postinst_script_path |-> <<>>]

extract_entry_DataOnly(member, bytes, path, files, postinst) ==
    IF member.file_stem = "data.tar" /\ member.extension \in SupportedCompression
    THEN [files |-> files \cup Unpack(bytes), postinst |-> postinst,
          found_postinst |-> FALSE, error |-> NoInstallError]
    ELSE IF member.file_stem = "data.tar"
    THEN [files |-> files, postinst |-> postinst, found_postinst |-> FALSE,
          error |-> UnsupportedCompression(path, member.extension)]
    ELSE [files |-> files, postinst |-> postinst, found_postinst |-> FALSE,
          error |-> NoInstallError]

\* the match in extract on (file_stem, extension) of one member: what it does
\* to the files of the layer and to the postinst file, whether it set
\* postinst_script_path, and the error it returned
extract_entry(member, bytes, path, files, postinst) ==
    IF member.file_stem = "data.tar" /\ member.extension \in SupportedCompression
    THEN [files |-> files \cup Unpack(bytes), postinst |-> postinst,
          found_postinst |-> FALSE, error |-> NoInstallError]
    ELSE IF member.file_stem = "data.tar"
    THEN [files |-> files, postinst |-> postinst, found_postinst |-> FALSE,
          error |-> UnsupportedCompression(path, member.extension)]
    ELSE IF member.file_stem = "control.tar" /\ member.extension \in SupportedCompression
    THEN IF "postinst" \in member.entries
         THEN [files |-> files, postinst |-> ControlEntry(bytes, "postinst"),
               found_postinst |-> TRUE, error |-> NoInstallError]
         ELSE [files |-> files, postinst |-> postinst, found_postinst |-> FALSE,
               error |-> NoInstallError]
    ELSE IF member.file_stem = "control.tar"
    THEN [files |-> files, postinst |-> postinst, found_postinst |-> FALSE,
          error |-> UnsupportedCompression(path, member.extension)]
    ELSE [files |-> files, postinst |-> postinst, found_postinst |-> FALSE,
          error |-> NoInstallError]

RECURSIVE PackagesToInstall(_, _, _)
PackagesToInstall(selection, version, i) ==
    IF i > Len(InstallOrder) THEN <<>>
    ELSE (IF InstallOrder[i] \in selection
          THEN <<RepositoryPackage(InstallOrder[i], version, {}, {}, {})>> ELSE <<>>)
         \o PackagesToInstall(selection, version, i + 1)

InstallPackage(n) ==
    CHOOSE p \in Range(install_list) : p.name = n

\* build calls install_packages with the packages the resolver selected
StartBuild(selection, version, d) ==
    /\ install_pc \in {"idle", "done"}
    /\ builds < MaxBuilds
    /\ builds' = builds + 1
    /\ distro' = d
    /\ install_list' = PackagesToInstall(selection, version, 1)
    /\ install_pc' = "start"
    /\ old_metadata' = NoMetadata
    /\ install_layer_state' = LayerState("None", "")
    /\ task' = [n \in InstallNames |-> NoTask]
    /\ temp_dir' = {}
    /\ install_error' = NoInstallError
    /\ UNCHANGED packages_layer
    /\ extraction' = [n \in InstallNames |-> NoExtraction]
    /\ executed' = <<>>
    /\ UNCHANGED <<postinst_file, package_config_files>>
    /\ UNCHANGED outsideInstall

\* install_packages up to the match on install_layer.state; an empty layer gets
\* the new metadata and one download_and_extract task per package
OpenPackagesLayer ==
    /\ install_pc = "start"
    /\ LET new_metadata == InstallationMetadata(distro, install_list)
           opened == cached_layer(packages_layer,
                        install_restored_layer_action(packages_layer.metadata, new_metadata))
       IN
       /\ old_metadata' = IF packages_layer.exists THEN packages_layer.metadata
                          ELSE NoMetadata
       /\ install_layer_state' = opened.state
       /\ IF opened.state.state = "Restored"
          THEN /\ packages_layer' = opened.layer
               /\ install_pc' = "post"
               /\ task' = task
          ELSE /\ packages_layer' = write_metadata(opened.layer, new_metadata)
               /\ install_pc' = "installing"
               /\ task' = [n \in InstallNames |->
                             IF \E i \in 1..Len(install_list) : install_list[i].name = n
                             THEN [NoTask EXCEPT !.pc = "spawned"] ELSE NoTask]
    /\ UNCHANGED <<builds, distro, install_list, temp_dir, install_error>>
    /\ postinst_file' = IF install_layer_state'.state = "Restored" THEN postinst_file
                         ELSE <<>>
    /\ package_config_files' = IF install_layer_state'.state = "Restored"
                                 THEN package_config_files
                                 ELSE [n \in InstallNames |-> NoFile]
    /\ UNCHANGED <<extraction, executed>>
    /\ UNCHANGED outsideInstall

\* download_and_extract: download
Download(n, outcome) ==
    /\ install_pc = "installing"
    /\ task[n].pc = "spawned"
    /\ LET p == InstallPackage(n) IN
       /\ task' = [task EXCEPT ![n] = download(p, outcome)]
       /\ temp_dir' = IF outcome = "error" THEN temp_dir
                      ELSE {f \in temp_dir : f[1] # download_file_name(p)}
                              \cup {<<download_file_name(p), ServedBytes(p, outcome)>>}
    /\ UNCHANGED <<builds, install_pc, distro, install_list, packages_layer, old_metadata,
                   install_layer_state, install_error>>
    /\ UNCHANGED <<extraction, postinst_file, executed, package_config_files>>
    /\ UNCHANGED outsideInstall

\* one pass of the loop over next_entry(): the member is matched on its file
\* stem and extension
ExtractEntry(n) ==
    /\ install_pc = "installing"
    /\ task[n].pc = "downloaded"
    /\ LET p == InstallPackage(n) IN
       \E f \in temp_dir :
          /\ f[1] = download_file_name(p)
          /\ extraction[n].entry < Len(DebArchive(f[2]))
          /\ LET member == DebArchive(f[2])[extraction[n].entry + 1]
                 result == extract_entry(member, f[2], download_file_name(p),
                                         packages_layer.files, postinst_file)
             IN
             /\ packages_layer' = [packages_layer EXCEPT !.files = result.files]
             /\ postinst_file' = result.postinst
             /\ package_config_files' =
                   IF member.file_stem = "data.tar" /\ result.error = NoInstallError
                   THEN [package_config_files EXCEPT ![n] = PackageConfigOf(f[2])]
                   ELSE package_config_files
             /\ extraction' =
                   [extraction EXCEPT
                      ![n].entry = @ + 1,
                      ![n].postinst_script_path =
                          IF result.found_postinst THEN <<"postinst">> ELSE @]
             /\ task' = IF result.error = NoInstallError THEN task
                        ELSE [task EXCEPT ![n].pc = "failed", ![n].error = result.error]
    /\ UNCHANGED <<builds, install_pc, distro, install_list, old_metadata,
                   install_layer_state, temp_dir, install_error, executed>>
    /\ UNCHANGED outsideInstall

\* extract after the loop: a postinst_script_path is made executable and run,
\* whatever the file holds by then; extract returns Ok
ExtractDone(n) ==
    /\ install_pc = "installing"
    /\ task[n].pc = "downloaded"
    /\ LET p == InstallPackage(n) IN
       \E f \in temp_dir :
          /\ f[1] = download_file_name(p)
          /\ extraction[n].entry = Len(DebArchive(f[2]))
    /\ executed' = IF extraction[n].postinst_script_path = <<>> THEN executed
                   ELSE Append(executed, [by |-> n, script |-> postinst_file])
    /\ task' = [task EXCEPT ![n].pc = "extracted"]
    /\ UNCHANGED <<builds, install_pc, distro, install_list, packages_layer, old_metadata,
                   install_layer_state, temp_dir, install_error, extraction,
                   postinst_file, package_config_files>>
    /\ UNCHANGED outsideInstall

JoinFailed_LeaveRunning(n) ==
    /\ install_pc = "installing"
    /\ task[n].pc = "failed"
    /\ install_error' = task[n].error
    /\ install_pc' = "failed"
    /\ UNCHANGED <<builds, distro, install_list, packages_layer, old_metadata,
                   install_layer_state, temp_dir, task>>
    /\ UNCHANGED <<extraction, postinst_file, executed, package_config_files>>
    /\ UNCHANGED outsideInstall

\* join_next hands back a failed task: install_packages returns its error and
\* the JoinSet is dropped with the tasks still in it
JoinFailed(n) ==
    /\ install_pc = "installing"
    /\ task[n].pc = "failed"
    /\ install_error' = task[n].error
    /\ install_pc' = "failed"
    /\ task' = [m \in InstallNames |->
                  IF task[m].pc \in {"spawned", "downloaded"}
                  THEN [task[m] EXCEPT !.pc = "aborted"] ELSE task[m]]
    /\ UNCHANGED <<builds, distro, install_list, packages_layer, old_metadata,
                   install_layer_state, temp_dir>>
    /\ UNCHANGED <<extraction, postinst_file, executed, package_config_files>>
    /\ UNCHANGED outsideInstall

\* every task was joined with Ok
JoinAll ==
    /\ install_pc = "installing"
    /\ \A n \in InstallNames : task[n].pc \in {"none", "extracted"}
    /\ install_pc' = "post"
    /\ UNCHANGED <<builds, distro, install_list, packages_layer, old_metadata,
                   install_layer_state, task, temp_dir, install_error>>
    /\ UNCHANGED <<extraction, postinst_file, executed, package_config_files>>
    /\ UNCHANGED outsideInstall

\* rewrite_package_config: the file is read, its lines are rewritten and the
\* lines joined with \n are written back
rewrite_package_config(contents) ==
    LET rewritten == join([i \in 1..Len(lines(contents)) |->
                              rewrite_line(lines(contents)[i])])
    IN [i \in 1..Len(rewritten) |->
           [text |-> rewritten[i], end |-> IF i < Len(rewritten) THEN "\n" ELSE ""]]

\* rewrite_package_configs: every *.pc file in a pkgconfig directory of the
\* layer is rewritten
rewrite_package_configs(files) ==
    [n \in InstallNames |->
        IF files[n] = NoFile THEN NoFile ELSE rewrite_package_config(files[n])]

\* the layer environment is written, the package configs of the layer are
\* rewritten and install_packages returns Ok
FinishInstall ==
    /\ install_pc = "post"
    /\ install_pc' = "done"
    /\ package_config_files' = rewrite_package_configs(package_config_files)
    /\ UNCHANGED <<builds, distro, install_list, packages_layer, old_metadata,
                   install_layer_state, task, temp_dir, install_error>>
    /\ UNCHANGED <<extraction, postinst_file, executed>>
    /\ UNCHANGED outsideInstall

\* the packages layer a first build may find: none, or one whose metadata an
\* earlier version of the buildpack wrote
InstallInit ==
    /\ builds = 0
    /\ install_pc = "idle"
    /\ distro = ""
    /\ install_list = <<>>
    /\ packages_layer \in {NoLayer,
                           [exists |-> TRUE, metadata |-> InvalidMetadata,
                            files |-> {<<"stale">>}]}
    /\ old_metadata = NoMetadata
    /\ install_layer_state = LayerState("None", "")
    /\ task = [n \in InstallNames |-> NoTask]
    /\ temp_dir = {}
    /\ install_error = NoInstallError
    /\ extraction = [n \in InstallNames |-> NoExtraction]
    /\ postinst_file = <<>>
    /\ executed = <<>>
    /\ package_config_files = [n \in InstallNames |-> NoFile]

InstallNext ==
    \/ \E selection \in SUBSET InstallNames, version \in IndexVersions, d \in Distros :
          StartBuild(selection, version, d)
    \/ OpenPackagesLayer
    \/ \E n \in InstallNames, outcome \in DownloadOutcomes : Download(n, outcome)
    \/ \E n \in InstallNames : ExtractEntry(n)
    \/ \E n \in InstallNames : ExtractDone(n)
    \/ \E n \in InstallNames : JoinFailed(n)
    \/ JoinAll
    \/ FinishInstall

(***************************************************************************)
(* Package index acquisition (create_package_index.rs), for one source     *)
(* with one suite.                                                         *)
(***************************************************************************)
\* most consecutive builds that update the source
MaxIndexBuilds == 2

Components == {"main", "universe"}
\* the ETag header of a response, None when there is no readable one
None == <<>>
ETags == {None, <<"e1">>, <<"e2">>}
\* the editions of the suite the archive publishes
Editions == {1, 2}

release_file_url == <<"repo", "dists", "suite", "InRelease">>

\* the Packages.gz the archive publishes for a component in an edition
IndexBytes(component, edition) == <<"Packages.gz", component, edition>>

\* the components of the source, in the order of its list
ComponentOrder == <<"main", "universe">>

\* the architecture of the source
arch == "binary-amd64"

\* the name a release file lists the compressed index of a component under
package_index_file(component) == <<component, arch, "Packages.gz">>

\* the entries of a SHA256 section that lists the components: for each the
\* Packages.xz and the Packages.gz of the edition
ReleaseHashes(listed, edition) ==
    LET cs == SelectSeq(ComponentOrder, LAMBDA c : c \in listed)
    IN [i \in 1..(2 * Len(cs)) |->
           IF i % 2 = 1
           THEN [filename |-> <<cs[(i + 1) \div 2], arch, "Packages.xz">>,
                 hash |-> Sha256(<<"Packages.xz", cs[(i + 1) \div 2], edition>>)]
           ELSE [filename |-> package_index_file(cs[i \div 2]),
                 hash |-> Sha256(IndexBytes(cs[i \div 2], edition))]]

\* the text of a release file: its author, whether it sets Acquire-By-Hash, and
\* the SHA256 section, <<>> when it has none and <<entries>> when it has one
ReleaseTextListing(author, edition, acquire_by_hash, sha256sum) ==
    [author |-> author, acquire_by_hash |-> acquire_by_hash, sha256sum |-> sha256sum]

\* a release file whose SHA256 section lists every component
ReleaseText(author, edition, acquire_by_hash) ==
    ReleaseTextListing(author, edition, acquire_by_hash,
                       <<ReleaseHashes(Components, edition)>>)

\* release files of the archive that lack the SHA256 section, or the entry
\* of a component
IncompleteReleaseTexts ==
    {ReleaseTextListing("archive", 1, FALSE, <<>>)}
       \cup {ReleaseTextListing("archive", 1, h, <<ReleaseHashes({c}, 1)>>) :
                h \in BOOLEAN, c \in Components}

\* an InRelease body: a cleartext and the results of verifying its level 0
\* signatures with the pinned certificate, in order
InReleaseBody(results, cleartext) == [results |-> results, cleartext |-> cleartext]

\* only the archive signs with the key of the pinned certificate
InReleaseBodies ==
    {InReleaseBody(<<"good">>, ReleaseText("archive", e, h)) :
        e \in Editions, h \in BOOLEAN}
    \cup {InReleaseBody(<<"good">>, text) : text \in IncompleteReleaseTexts}
    \cup {InReleaseBody(r, ReleaseText("other", 1, FALSE)) : r \in {<<>>, <<"bad">>}}

NoBody == InReleaseBody(<<>>, <<>>)

Responses ==
    {[status |-> "error", etag |-> None, body |-> NoBody]}
    \cup {[status |-> "ok", etag |-> t, body |-> b] : t \in ETags, b \in InReleaseBodies}

NoResponse == [status |-> "none", etag |-> None, body |-> NoBody]

\* MessageLayer: a signature group with the results of verifying its
\* signatures, or a layer of another kind
SignatureGroup(results) == [kind |-> "SignatureGroup", results |-> results]
Compression == [kind |-> "Compression", results |-> <<>>]
Encryption == [kind |-> "Encryption", results |-> <<>>]

CheckOk == [ok |-> TRUE, error |-> ""]
CheckErr(error) == [ok |-> FALSE, error |-> error]

CertHelper_check_AnyResult(structure) ==
    IF structure = <<>> THEN CheckErr("Signature verification failed")
    ELSE IF structure[1].kind # "SignatureGroup" THEN CheckErr("Unexpected message structure")
    ELSE IF structure[1].results = <<>> THEN CheckErr("No signature")
    ELSE IF \E i \in 1..Len(structure[1].results) : structure[1].results[i] = "good"
         THEN CheckOk
    ELSE CheckErr("verification error")

\* CertHelper::check: the loop returns in its first pass, with the first result
\* of a signature group at level 0, and fails after an empty structure
CertHelper_check(structure) ==
    IF structure = <<>> THEN CheckErr("Signature verification failed")
    ELSE IF structure[1].kind # "SignatureGroup" THEN CheckErr("Unexpected message structure")
    ELSE IF structure[1].results = <<>> THEN CheckErr("No signature")
    ELSE IF structure[1].results[1] = "good" THEN CheckOk
    ELSE CheckErr("verification error")

check_AcceptAny(results) == TRUE

\* CertHelper::check on a cleartext signed message, whose structure is one
\* signature group
check(results) == CertHelper_check(<<SignatureGroup(results)>>).ok

ReleaseFileMetadata(etag) == Metadata([etag |-> etag])

PackageIndexMetadata(hash) == Metadata([hash |-> hash])

release_restored_layer_action_AlwaysKeep(old, new) == "KeepLayer"

\* restored_layer_action of the release layer and of the package index layers
release_restored_layer_action(old, new) ==
    IF old = new THEN "KeepLayer" ELSE "DeleteLayer"

package_index_restored_layer_action(old, new) ==
    IF old = new THEN "KeepLayer" ELSE "DeleteLayer"

\* the file of that name in a layer, or <<>> when there is none
LayerFile(layer, name) ==
    IF \E f \in layer.files : f[1] = name
    THEN (CHOOSE f \in layer.files : f[1] = name)[2]
    ELSE <<>>

\* async_write / File::create and copy: the file is created or truncated
WriteFile(layer, name, content) ==
    [layer EXCEPT !.files = {f \in @ : f[1] # name} \cup {<<name, content>>}]

\* the entry of the component's Packages.gz in the SHA256 section, or the
\* error for a release file without the section or without the entry
package_index_release_hash(parsed, component) ==
    IF parsed.sha256sum = <<>>
    THEN [type |-> "MissingSha256ReleaseHashes", hash |-> <<>>]
    ELSE LET entries == parsed.sha256sum[1]
             found == {i \in 1..Len(entries) :
                          entries[i].filename = package_index_file(component)}
         IN IF found = {}
            THEN [type |-> "MissingPackageIndexReleaseHash", hash |-> <<>>]
            ELSE [type |-> "Ok",
                  hash |-> entries[CHOOSE i \in found : \A j \in found : i <= j].hash]

package_release_url_PackagesGz(parsed, component) ==
    <<"repo", "dists", "suite", component, arch, "Packages.gz">>

package_release_url(parsed, component) ==
    IF parsed.acquire_by_hash
    THEN <<"repo", "dists", "suite", component, arch, "by-hash", "SHA256">>
            \o package_index_release_hash(parsed, component).hash
    ELSE <<"repo", "dists", "suite", component, arch, "Packages.gz">>

PackageIndexUrls ==
    {package_release_url(ReleaseText("archive", e, h), c) :
        e \in Editions, h \in BOOLEAN, c \in Components}
    \cup {package_release_url(ReleaseText("other", 1, FALSE), c) : c \in Components}

NoIndexError == [type |-> "none", url |-> <<>>, expected |-> <<>>, actual |-> <<>>]

IndexError(type) == [NoIndexError EXCEPT !.type = type]

MissingSha256ReleaseHashes(repository_uri) ==
    [type |-> "MissingSha256ReleaseHashes", repository_uri |-> repository_uri]

MissingPackageIndexReleaseHash(repository_uri, package_index_name) ==
    [type |-> "MissingPackageIndexReleaseHash", repository_uri |-> repository_uri,
     package_index |-> package_index_name]

IndexChecksumFailed(url, expected, actual) ==
    [type |-> "ChecksumFailed", url |-> url, expected |-> expected, actual |-> actual]

NoListTask ==
    [pc |-> "none", url |-> <<>>, hash |-> <<>>, state |-> LayerState("None", ""),
     old_metadata |-> NoMetadata, calculated_hash |-> <<>>, error |-> NoIndexError]

\* what a GET of a package index url streams
IndexOutcomes == {"ok", "corrupt", "error"}

\* the url names the bytes with by-hash; otherwise the archive serves its
\* current edition, which is the one whose hash the release file lists
ServedIndex(component, hash, outcome) ==
    LET published == CHOOSE b \in {IndexBytes(component, e) : e \in Editions} :
                        Sha256(b) = hash
    IN IF outcome = "ok" THEN published ELSE Append(published, "corrupt")

\* GzipDecoder over the response stream
GzipDecode(bytes) == <<"decoded">> \o bytes

\* get_release: GET of the InRelease url; together with a build's first call
GetReleaseRequest(r) ==
    /\ index_pc \in {"idle", "done"}
    /\ index_builds < MaxIndexBuilds
    /\ index_builds' = index_builds + 1
    /\ response' = r
    /\ IF r.status = "error"
       THEN index_pc' = "failed" /\ index_error' = IndexError("GetReleaseRequest")
       ELSE index_pc' = "response" /\ index_error' = NoIndexError
    /\ release_file_state' = LayerState("None", "")
    /\ release_old_metadata' = NoMetadata
    /\ unverified_response_body' = NoBody
    /\ release' = <<>>
    /\ list_task' = [c \in Components |-> NoListTask]
    /\ UNCHANGED <<release_file_layer, package_index_layers>>
    /\ UNCHANGED outsideIndex

\* get_release: cached_layer on the release layer; a kept layer is Cached, an
\* empty one gets the new metadata and the .url file
OpenReleaseLayer ==
    /\ index_pc = "response"
    /\ LET new_metadata == ReleaseFileMetadata(response.etag)
           opened == cached_layer(release_file_layer,
                        release_restored_layer_action(release_file_layer.metadata,
                                                      new_metadata))
       IN
       /\ release_old_metadata' = IF release_file_layer.exists
                                  THEN release_file_layer.metadata ELSE NoMetadata
       /\ release_file_state' = opened.state
       /\ IF opened.state.state = "Restored"
          THEN /\ release_file_layer' = opened.layer
               /\ index_pc' = "release_ready"
          ELSE /\ release_file_layer' =
                     WriteFile(write_metadata(opened.layer, new_metadata),
                               ".url", release_file_url)
               /\ index_pc' = "metadata_written"
    /\ UNCHANGED <<index_builds, response, unverified_response_body, release,
                   package_index_layers, list_task, index_error>>
    /\ UNCHANGED outsideIndex

\* get_release: response.text()
ReadGetReleaseResponse(ok) ==
    /\ index_pc = "metadata_written"
    /\ IF ok
       THEN /\ unverified_response_body' = response.body
            /\ index_pc' = "body_read"
            /\ index_error' = index_error
       ELSE /\ unverified_response_body' = unverified_response_body
            /\ index_pc' = "failed"
            /\ index_error' = IndexError("ReadGetReleaseResponse")
    /\ UNCHANGED <<index_builds, response, release_file_layer, release_file_state,
                   release_old_metadata, release, package_index_layers, list_task>>
    /\ UNCHANGED outsideIndex

\* get_release: VerifierBuilder::from_bytes(..).with_policy(.., cert_helper), which
\* for a body that fits the verifier's buffer runs check before it returns; the
\* cleartext is copied to the release file only when the verifier was built
VerifyAndWriteRelease ==
    /\ index_pc = "body_read"
    /\ IF check(unverified_response_body.results)
       THEN /\ release_file_layer' = WriteFile(release_file_layer, "release",
                                               unverified_response_body.cleartext)
            /\ index_pc' = "release_ready"
            /\ index_error' = index_error
       ELSE /\ release_file_layer' = release_file_layer
            /\ index_pc' = "failed"
            /\ index_error' = IndexError("CreatePgpVerifier")
    /\ UNCHANGED <<index_builds, response, release_file_state, release_old_metadata,
                   unverified_response_body, release, package_index_layers, list_task>>
    /\ UNCHANGED outsideIndex

\* update_source after get_release returned Ok: read and parse the release file,
\* then spawn get_package_list for each component with its url and listed hash;
\* at the first component whose hash is not listed update_source returns the
\* error, and the JoinSet is dropped with the tasks spawned before
SpawnGetPackageLists ==
    /\ index_pc = "release_ready"
    /\ LayerFile(release_file_layer, "release") # <<>>
    /\ LET parsed == LayerFile(release_file_layer, "release")
           missing == {i \in 1..Len(ComponentOrder) :
                          package_index_release_hash(parsed, ComponentOrder[i]).type # "Ok"}
           first == IF missing = {} THEN Len(ComponentOrder) + 1
                    ELSE CHOOSE i \in missing : \A j \in missing : i <= j
           spawned == {ComponentOrder[i] : i \in 1..(first - 1)}
       IN
       /\ release' = parsed
       /\ list_task' = [c \in Components |->
                          IF c \in spawned
                          THEN [NoListTask EXCEPT
                                  !.pc = IF missing = {} THEN "spawned" ELSE "aborted",
                                  !.url = package_release_url(parsed, c),
                                  !.hash = package_index_release_hash(parsed, c).hash]
                          ELSE NoListTask]
       /\ index_pc' = IF missing = {} THEN "fetching" ELSE "failed"
       /\ index_error' =
             IF missing = {} THEN index_error
             ELSE IF package_index_release_hash(parsed, ComponentOrder[first]).type
                        = "MissingSha256ReleaseHashes"
                  THEN MissingSha256ReleaseHashes("repo")
                  ELSE MissingPackageIndexReleaseHash("repo",
                                                      package_index_file(ComponentOrder[first]))
    /\ UNCHANGED <<index_builds, response, release_file_layer, release_file_state,
                   release_old_metadata, unverified_response_body, package_index_layers>>
    /\ UNCHANGED outsideIndex

\* update_source after get_release returned Ok: the layer has no release file
\* to read
ReadReleaseFileFailed ==
    /\ index_pc = "release_ready"
    /\ LayerFile(release_file_layer, "release") = <<>>
    /\ index_pc' = "failed"
    /\ index_error' = IndexError("ReadReleaseFile")
    /\ UNCHANGED <<index_builds, response, release_file_layer, release_file_state,
                   release_old_metadata, unverified_response_body, release,
                   package_index_layers, list_task>>
    /\ UNCHANGED outsideIndex

\* the build after a build that failed, run on the layers directory as the
\* failed build left it: nothing in create_package_index removes a layer or
\* its metadata when it returns an error
BuildAfterFailure(r) ==
    /\ index_pc = "failed"
    /\ index_builds < MaxIndexBuilds
    /\ index_builds' = index_builds + 1
    /\ response' = r
    /\ IF r.status = "error"
       THEN index_pc' = "failed" /\ index_error' = IndexError("GetReleaseRequest")
       ELSE index_pc' = "response" /\ index_error' = NoIndexError
    /\ release_file_state' = LayerState("None", "")
    /\ release_old_metadata' = NoMetadata
    /\ unverified_response_body' = NoBody
    /\ release' = <<>>
    /\ list_task' = [c \in Components |-> NoListTask]
    /\ UNCHANGED <<release_file_layer, package_index_layers>>
    /\ UNCHANGED outsideIndex

\* get_package_list: cached_layer on the layer of the url; a kept layer is
\* Cached, an empty one gets the {hash} metadata and the .url file
OpenPackageIndexLayer(c) ==
    /\ index_pc = "fetching"
    /\ list_task[c].pc = "spawned"
    /\ LET url == list_task[c].url
           layer == package_index_layers[url]
           new_metadata == PackageIndexMetadata(list_task[c].hash)
           opened == cached_layer(layer,
                        package_index_restored_layer_action(layer.metadata, new_metadata))
       IN
       /\ list_task' = [list_task EXCEPT
                          ![c].state = opened.state,
                          ![c].old_metadata = IF layer.exists THEN layer.metadata
                                              ELSE NoMetadata,
                          ![c].pc = IF opened.state.state = "Restored"
                                    THEN "done" ELSE "opened"]
       /\ package_index_layers' =
             [package_index_layers EXCEPT
                ![url] = IF opened.state.state = "Restored" THEN opened.layer
                         ELSE WriteFile(write_metadata(opened.layer, new_metadata),
                                        ".url", url)]
    /\ UNCHANGED <<index_builds, index_pc, response, release_file_layer,
                   release_file_state, release_old_metadata, unverified_response_body,
                   release, index_error>>
    /\ UNCHANGED outsideIndex

\* get_package_list on an empty layer: GET the url, copy the decoded stream to
\* package_index while hashing the response, then compare with the listed hash
get_package_list(layer, t, c, outcome) ==
    IF outcome = "error"
    THEN [layer |-> layer,
          task |-> [t EXCEPT !.pc = "failed", !.error = IndexError("GetPackagesRequest")]]
    ELSE LET bytes == ServedIndex(c, t.hash, outcome)
             written == WriteFile(layer, "package_index", GzipDecode(bytes))
             calculated_hash == Sha256(bytes)
         IN IF t.hash # calculated_hash
            THEN [layer |-> written,
                  task |-> [t EXCEPT !.pc = "failed",
                                     !.calculated_hash = calculated_hash,
                                     !.error = IndexChecksumFailed(t.url, t.hash,
                                                                   calculated_hash)]]
            ELSE [layer |-> written,
                  task |-> [t EXCEPT !.pc = "done", !.calculated_hash = calculated_hash]]

GetPackageList(c, outcome) ==
    /\ index_pc = "fetching"
    /\ list_task[c].pc = "opened"
    /\ LET url == list_task[c].url
           result == get_package_list(package_index_layers[url], list_task[c], c, outcome)
       IN
       /\ package_index_layers' = [package_index_layers EXCEPT ![url] = result.layer]
       /\ list_task' = [list_task EXCEPT ![c] = result.task]
    /\ UNCHANGED <<index_builds, index_pc, response, release_file_layer,
                   release_file_state, release_old_metadata, unverified_response_body,
                   release, index_error>>
    /\ UNCHANGED outsideIndex

\* update_source: join_next hands back a failed get_package_list; its error is
\* returned and the JoinSet is dropped with the tasks still in it
JoinPackageListFailed(c) ==
    /\ index_pc = "fetching"
    /\ list_task[c].pc = "failed"
    /\ index_error' = list_task[c].error
    /\ index_pc' = "failed"
    /\ list_task' = [d \in Components |->
                       IF list_task[d].pc \in {"spawned", "opened"}
                       THEN [list_task[d] EXCEPT !.pc = "aborted"] ELSE list_task[d]]
    /\ UNCHANGED <<index_builds, response, release_file_layer, release_file_state,
                   release_old_metadata, unverified_response_body, release,
                   package_index_layers>>
    /\ UNCHANGED outsideIndex

\* update_source: every get_package_list was joined with Ok
JoinPackageLists ==
    /\ index_pc = "fetching"
    /\ \A c \in Components : list_task[c].pc = "done"
    /\ index_pc' = "done"
    /\ UNCHANGED <<index_builds, response, release_file_layer, release_file_state,
                   release_old_metadata, unverified_response_body, release,
                   package_index_layers, list_task, index_error>>
    /\ UNCHANGED outsideIndex

\* a layer whose metadata an earlier version of the buildpack wrote
StaleLayer == [exists |-> TRUE, metadata |-> InvalidMetadata,
               files |-> {<<"stale", <<>>>>}]

\* no build has called create_package_index
IndexIdle ==
    /\ index_builds = 0
    /\ index_pc = "idle"
    /\ response = NoResponse
    /\ release_file_layer = NoLayer
    /\ release_file_state = LayerState("None", "")
    /\ release_old_metadata = NoMetadata
    /\ unverified_response_body = NoBody
    /\ release = <<>>
    /\ package_index_layers = [u \in PackageIndexUrls |-> NoLayer]
    /\ list_task = [c \in Components |-> NoListTask]
    /\ index_error = NoIndexError

\* the layers a first build may find: none, or stale ones
IndexInit ==
    /\ index_builds = 0
    /\ index_pc = "idle"
    /\ response = NoResponse
    /\ release_file_layer \in {NoLayer, StaleLayer}
    /\ release_file_state = LayerState("None", "")
    /\ release_old_metadata = NoMetadata
    /\ unverified_response_body = NoBody
    /\ release = <<>>
    /\ package_index_layers \in {[u \in PackageIndexUrls |-> NoLayer],
                                 [u \in PackageIndexUrls |-> StaleLayer]}
    /\ list_task = [c \in Components |-> NoListTask]
    /\ index_error = NoIndexError

IndexNext ==
    \/ \E r \in Responses : GetReleaseRequest(r)
    \/ OpenReleaseLayer
    \/ \E ok \in BOOLEAN : ReadGetReleaseResponse(ok)
    \/ VerifyAndWriteRelease
    \/ SpawnGetPackageLists
    \/ \E c \in Components : OpenPackageIndexLayer(c)
    \/ \E c \in Components, outcome \in IndexOutcomes : GetPackageList(c, outcome)
    \/ \E c \in Components : JoinPackageListFailed(c)
    \/ JoinPackageLists

(***************************************************************************)
(* DebianPackagesBuildpack::build (main.rs): the stages in sequence.       *)
(***************************************************************************)
\* project.toml: the item at com.heroku.buildpacks.deb-packages and its install
\* key; text that is no TOML document is "invalid"
ProjectToml(root_config_item, install) ==
    [root_config_item |-> root_config_item, install |-> install]

NoInstallKey == [kind |-> "none", values |-> <<>>]

NotAnArray == [kind |-> "string", values |-> <<>>]

InstallArray(values) == [kind |-> "array", values |-> values]

InstallArrays ==
    {<<>>, <<RequestedPackage("a", FALSE)>>, <<RequestedPackage("b", FALSE)>>,
     <<RequestedPackage("a", FALSE), RequestedPackage("b", FALSE)>>,
     <<RequestedPackage("b", FALSE), RequestedPackage("a", FALSE)>>}

ProjectTomls ==
    {ProjectToml("invalid", NoInstallKey), ProjectToml("none", NoInstallKey),
     ProjectToml("value", NoInstallKey), ProjectToml("table", NoInstallKey),
     ProjectToml("table", NotAnArray)}
    \cup {ProjectToml("table", InstallArray(install)) : install \in InstallArrays}

BuildpackConfig(install) == [valid |-> TRUE, install |-> install]

ConfigError == [valid |-> FALSE, install |-> <<>>]

\* BuildpackConfig::from_str and the TryFrom of the table: no item gives the
\* default configuration, an install key that is no array is passed over
BuildpackConfigFromStr(toml) ==
    CASE toml.root_config_item = "invalid" -> ConfigError
      [] toml.root_config_item = "none" -> BuildpackConfig(<<>>)
      [] toml.root_config_item = "value" -> ConfigError
      [] OTHER -> IF toml.install.kind = "array"
                  THEN BuildpackConfig(toml.install.values)
                  ELSE BuildpackConfig(<<>>)

Ok == [type |-> "Ok"]

Err(error) == [type |-> "Err", error |-> error]

NoResult == [type |-> "none"]

is_empty_Never(install) == FALSE

\* IndexSet::is_empty of config.install
is_empty(install) == Len(install) = 0

\* the ? after a stage: an Err ends build, Ok goes on to the next stage
try_stage_Continue(stage_pc, next_stage) == next_stage

try_stage(stage_pc, next_stage) == IF stage_pc = "failed" THEN "failed" ELSE next_stage

\* the indexes create_package_index may hand back: a, which may depend on b,
\* and b, which the repository may not have
PublishedPackages ==
    {PackagesOf(st, 1) :
        st \in {t \in Stanzas : /\ ~t["c"].present
                                /\ t["a"].deps \subseteq {"b"}
                                /\ t["a"].provides = {}
                                /\ t["b"].deps = {}
                                /\ t["b"].provides = {}}}

PublishedIndexes == {BuildIndexRev(ps, Len(ps)) : ps \in PublishedPackages}

\* build up to create_package_index: the configuration is read, an empty
\* install returns at once, then the distribution is taken from the target
ReadConfig(supported) ==
    /\ build_pc = "start"
    /\ config' = BuildpackConfigFromStr(project_toml)
    /\ IF ~config'.valid
       THEN build_pc' = "failed" /\ build_result' = Err([type |-> "Config"])
       ELSE IF is_empty(config'.install)
       THEN build_pc' = "done" /\ build_result' = Ok
       ELSE IF ~supported
       THEN build_pc' = "failed" /\ build_result' = Err([type |-> "UnsupportedDistro"])
       ELSE build_pc' = "create_package_index" /\ build_result' = NoResult
    /\ UNCHANGED <<project_toml, resolverVars, installVars, indexVars, httpVars, envVars, fnVars>>

\* runtime.block_on(create_package_index(..)) is running
CreatePackageIndex ==
    /\ build_pc = "create_package_index"
    /\ index_pc \notin {"done", "failed"}
    /\ IndexNext

\* create_package_index returned
CreatePackageIndexReturn ==
    /\ build_pc = "create_package_index"
    /\ index_pc \in {"done", "failed"}
    /\ build_pc' = try_stage(index_pc, "determine_packages_to_install")
    /\ IF index_pc = "failed"
       THEN /\ build_result' = Err(index_error)
            /\ UNCHANGED <<package_index, add_package_calls, system_packages>>
       ELSE /\ build_result' = NoResult
            /\ \E ps \in PublishedPackages :
                  /\ package_index' = BuildIndexRev(ps, Len(ps))
                  /\ add_package_calls' = ps
            /\ system_packages' \in SUBSET {"b"}
    /\ UNCHANGED <<requested, packages_marked_for_install, visit_stack,
                   package_notifications, frames, marked_at_start, resolve_pc,
                   resolve_error, packages_to_install>>
    /\ UNCHANGED <<project_toml, config, installVars, indexVars, httpVars, envVars, fnVars>>

\* determine_packages_to_install(&package_index, config.install, log) is
\* running: the requested packages are those of the configuration, in order
DeterminePackagesToInstall ==
    /\ build_pc = "determine_packages_to_install"
    /\ resolve_pc \notin {"done", "failed"}
    /\ ResolverNext
    /\ Len(requested') <= Len(config.install)
    /\ \A i \in 1..Len(requested') : requested'[i] = config.install[i]
    /\ resolve_pc' = "done" => Len(requested) = Len(config.install)

\* determine_packages_to_install returned
DeterminePackagesToInstallReturn ==
    /\ build_pc = "determine_packages_to_install"
    /\ resolve_pc \in {"done", "failed"}
    /\ build_pc' = try_stage(resolve_pc, "install_packages")
    /\ build_result' = IF resolve_pc = "failed" THEN Err(resolve_error) ELSE NoResult
    /\ UNCHANGED <<project_toml, config, resolverVars, installVars, indexVars, httpVars, envVars, fnVars>>

\* runtime.block_on(install_packages(.., packages_to_install, log)) is running
InstallPackages ==
    /\ build_pc = "install_packages"
    /\ install_pc \notin {"done", "failed"}
    /\ InstallNext
    /\ install_pc = "idle" =>
          /\ {install_list'[i].name : i \in 1..Len(install_list')}
                = {packages_to_install[i].name : i \in 1..Len(packages_to_install)}
          /\ \A i \in 1..Len(install_list') :
                \E j \in 1..Len(packages_to_install) :
                   install_list'[i].version = packages_to_install[j].version

\* install_packages returned; after it build returns Ok
InstallPackagesReturn ==
    /\ build_pc = "install_packages"
    /\ install_pc \in {"done", "failed"}
    /\ build_pc' = try_stage(install_pc, "done")
    /\ build_result' = IF install_pc = "failed" THEN Err(install_error) ELSE Ok
    /\ UNCHANGED <<project_toml, config, resolverVars, installVars, indexVars, httpVars, envVars, fnVars>>

\* a build is about to run on an application with a project.toml
BuildInit ==
    /\ build_pc = "start"
    /\ project_toml \in ProjectTomls
    /\ config = BuildpackConfig(<<>>)
    /\ build_result = NoResult

BuildNext ==
    \/ \E supported \in BOOLEAN : ReadConfig(supported)
    \/ CreatePackageIndex
    \/ CreatePackageIndexReturn
    \/ DeterminePackagesToInstall
    \/ DeterminePackagesToInstallReturn
    \/ InstallPackages
    \/ InstallPackagesReturn

\* build is not running
BuildIdle ==
    /\ build_pc = "idle"
    /\ project_toml = ProjectToml("none", NoInstallKey)
    /\ config = BuildpackConfig(<<>>)
    /\ build_result = NoResult

(***************************************************************************)
(* The HTTP client of build: reqwest behind RetryTransientMiddleware with  *)
(* ExponentialBackoff::builder().build_with_max_retries(5).                *)
(***************************************************************************)
max_n_retries == 5

\* the GETs of a build: the release file, a package index, a .deb
Urls == {"InRelease", "Packages.gz", "deb"}

\* what one attempt comes to: a connection error, a response with a status,
\* or an error that is no connection error
Outcomes == {"connect", "503", "429", "200", "404", "redirect"}

\* the default strategy of the middleware: server errors, 408 and 429 and
\* connection errors and timeouts are transient
Transient(outcome) == outcome \in {"connect", "503", "429"}

should_retry_OnceMore(n) == n < max_n_retries + 1

\* ExponentialBackoff::should_retry: no retry once n_past_retries has
\* reached the maximum
should_retry(n) == n < max_n_retries

\* res.error_for_status() and the map_err of the caller
error_for_status(outcome) ==
    CASE outcome = "200" -> "Ok"
      [] outcome \in {"503", "429", "404"} -> "Reqwest"
      [] OTHER -> "ReqwestMiddleware"

\* client.get(url).send(): the middleware starts with no past retries
Get(url) ==
    /\ http_pc = "idle"
    /\ get_result[url] = "none"
    /\ http_url' = url
    /\ n_past_retries' = 0
    /\ attempts' = <<>>
    /\ http_result' = <<>>
    /\ http_pc' = "run"
    /\ UNCHANGED <<get_result, resolverVars, installVars, indexVars, buildVars, envVars, fnVars>>

\* one pass of the loop of the middleware: the request is run; a transient
\* result the policy lets it retry leads to the backoff, any other result is
\* what send() returns
Execute(outcome) ==
    /\ http_pc = "run"
    /\ attempts' = Append(attempts, outcome)
    /\ IF Transient(outcome) /\ should_retry(n_past_retries)
       THEN http_pc' = "backoff" /\ UNCHANGED http_result
       ELSE http_pc' = "returned" /\ http_result' = <<outcome>>
    /\ UNCHANGED <<http_url, n_past_retries, get_result, resolverVars, installVars,
                   indexVars, buildVars, envVars, fnVars>>

\* the backoff is over: the middleware counts the retry and runs the request
\* again
Retry ==
    /\ http_pc = "backoff"
    /\ n_past_retries' = n_past_retries + 1
    /\ http_pc' = "run"
    /\ UNCHANGED <<http_url, attempts, http_result, get_result, resolverVars,
                   installVars, indexVars, buildVars, envVars, fnVars>>

\* the task that sent the GET has its answer: an error status or an error
\* ends the task with ?, a success is read
Answer ==
    /\ http_pc = "returned"
    /\ get_result' = [get_result EXCEPT ![http_url] = error_for_status(http_result[1])]
    /\ http_pc' = "idle"
    /\ UNCHANGED <<http_url, n_past_retries, attempts, http_result, resolverVars,
                   installVars, indexVars, buildVars, envVars, fnVars>>

\* no GET was sent
HttpInit ==
    /\ http_pc = "idle"
    /\ http_url = ""
    /\ n_past_retries = 0
    /\ attempts = <<>>
    /\ http_result = <<>>
    /\ get_result = [u \in Urls |-> "none"]

HttpNext ==
    \/ \E url \in Urls : Get(url)
    \/ \E outcome \in Outcomes : Execute(outcome)
    \/ Retry
    \/ Answer

(***************************************************************************)
(* configure_layer_environment: the library paths of an installation tree. *)
(***************************************************************************)
MaxFiles == 4

\* a path is a sequence of components and a component the parts of its name
\* between the dots
Dir(name) == <<name>>

multiarch_name == Dir("x86_64-linux-gnu")

PathOf(dirs, file_name) == [i \in 1..Len(dirs) |-> Dir(dirs[i])] \o <<file_name>>

\* the files a package may bring
CandidateFiles ==
    {PathOf(<<"usr", "lib", "x86_64-linux-gnu", "n1">>, <<"lib", "so", "2">>),
     PathOf(<<"usr", "lib", "x86_64-linux-gnu">>, <<"lib", "so">>),
     PathOf(<<"usr", "lib", "n2", "deep">>, <<"lib", "so">>),
     PathOf(<<"usr", "lib", "n5">>, <<"readme", "txt">>),
     PathOf(<<"usr", "lib", "n7">>, <<"lib", "so">>),
     PathOf(<<"usr", "lib", "n8">>, <<"lib", "so", "1">>),
     PathOf(<<"usr", "lib", "nested-long-name">>, <<"lib", "so">>),
     PathOf(<<"lib", "n4">>, <<"lib", "so", "3", "0">>),
     PathOf(<<"lib", "x86_64-linux-gnu", "n3">>, <<"lib", "so">>),
     PathOf(<<"usr", "share">>, <<"lib", "so">>)}

InstallTrees == {t \in SUBSET CandidateFiles : Cardinality(t) <= MaxFiles}

IsPrefix(p, q) == Len(p) <= Len(q) /\ SubSeq(q, 1, Len(p)) = p

\* Path::parent
Parent(path) == SubSeq(path, 1, Len(path) - 1)

\* Path::extension of a file name: none without a dot, and none for a name
\* that begins with its only dot
HasExtension(name) == Len(name) >= 2 /\ ~(Len(name) = 2 /\ name[1] = "")

shared_library_file_LastExtensionOnly(name) ==
    HasExtension(name) /\ name[Len(name)] = "so"

\* shared_library_file: extensions are taken off the name until one is so
RECURSIVE shared_library_file(_)
shared_library_file(name) ==
    IF ~HasExtension(name) THEN FALSE
    ELSE IF name[Len(name)] = "so" THEN TRUE
    ELSE shared_library_file(SubSeq(name, 1, Len(name) - 1))

\* the length of a name and of a path as a string
RECURSIVE NameLen(_)
NameLen(name) ==
    IF Len(name) = 0 THEN 0
    ELSE IF Len(name) = 1 THEN Len(name[1])
    ELSE Len(name[1]) + 1 + NameLen(Tail(name))

RECURSIVE PathLen(_)
PathLen(path) ==
    IF Len(path) = 0 THEN 0 ELSE 1 + NameLen(path[1]) + PathLen(Tail(path))

\* the entries WalkDir yields for starting_dir: the directory and everything
\* below it
Entries(tree, starting_dir) ==
    UNION {{SubSeq(f, 1, n) : n \in Len(starting_dir)..Len(f)} :
              f \in {g \in tree : IsPrefix(starting_dir, g)}}

\* a directory is read name by name in the order of the file system, here the
\* order of the names or its reverse
NameRank(name) ==
    LET parts == IF Len(name) = 0 THEN "" ELSE name[1]
        letters == <<"lib", "n1", "n2", "n3", "n4", "n5", "n7", "n8", "deep",
                     "nested-long-name", "readme", "share", "usr", "x86_64-linux-gnu">>
        i == CHOOSE k \in 1..Len(letters) : letters[k] = parts
    IN IF read_dir_order = "forward" THEN i ELSE Len(letters) + 1 - i

RECURSIVE WalkBefore(_, _)
WalkBefore(p, q) ==
    IF Len(p) = 0 THEN Len(q) > 0
    ELSE IF Len(q) = 0 THEN FALSE
    ELSE IF p[1] = q[1] THEN WalkBefore(Tail(p), Tail(q))
    ELSE NameRank(p[1]) < NameRank(q[1])

\* WalkDir::new(starting_dir).into_iter(): a directory before its contents
RECURSIVE Walk(_)
Walk(entries) ==
    IF entries = {} THEN <<>>
    ELSE LET first == CHOOSE p \in entries : \A q \in entries \ {p} : WalkBefore(p, q)
         IN <<first>> \o Walk(entries \ {first})

\* sort_by_key(Reverse(len)): a stable sort, the longest first
RECURSIVE SortLongestFirst(_)
SortLongestFirst(matches) ==
    IF Len(matches) = 0 THEN <<>>
    ELSE LET i == CHOOSE k \in 1..Len(matches) :
                     /\ \A j \in 1..Len(matches) : PathLen(matches[j]) <= PathLen(matches[k])
                     /\ \A j \in 1..(k - 1) : PathLen(matches[j]) < PathLen(matches[k])
         IN <<matches[i]>>
            \o SortLongestFirst(SubSeq(matches, 1, i - 1) \o SubSeq(matches, i + 1, Len(matches)))

\* find_all_dirs_containing(starting_dir, shared_library_file): the parent of
\* every entry the condition holds for, the longest path first
find_all_dirs_containing(tree, starting_dir) ==
    IF \E f \in tree : IsPrefix(starting_dir, f)
    THEN LET walk == Walk(Entries(tree, starting_dir))
             found == SelectSeq(walk, LAMBDA e : shared_library_file(e[Len(e)]))
         IN SortLongestFirst([i \in 1..Len(found) |-> Parent(found[i])])
    ELSE <<>>

RECURSIVE InsertAll(_, _)
InsertAll(acc, dirs) ==
    IF Len(dirs) = 0 THEN acc ELSE InsertAll(IndexSetInsert(acc, Head(dirs)), Tail(dirs))

\* the library directories of the multi-arch and of the legacy layout
LibraryRoots ==
    <<<<Dir("usr"), Dir("lib"), multiarch_name>>, <<Dir("usr"), Dir("lib")>>,
      <<Dir("lib"), multiarch_name>>, <<Dir("lib")>>>>

\* the fold over the library directories into an IndexSet
RECURSIVE library_paths(_, _, _)
library_paths(tree, i, acc) ==
    IF i > Len(LibraryRoots) THEN acc
    ELSE library_paths(tree, i + 1,
            IndexSetInsert(InsertAll(acc, find_all_dirs_containing(tree, LibraryRoots[i])),
                           LibraryRoots[i]))

NoLayerEnv == [LD_LIBRARY_PATH |-> <<>>, LIBRARY_PATH |-> <<>>]

\* configure_layer_environment, for LD_LIBRARY_PATH and LIBRARY_PATH
ConfigureLayerEnvironment ==
    /\ env_pc = "installed"
    /\ layer_env' = [LD_LIBRARY_PATH |-> library_paths(install_tree, 1, <<>>),
                     LIBRARY_PATH |-> library_paths(install_tree, 1, <<>>)]
    /\ env_pc' = "configured"
    /\ UNCHANGED <<install_tree, read_dir_order>>
    /\ UNCHANGED <<resolverVars, installVars, indexVars, buildVars, httpVars, fnVars>>

\* the packages were unpacked into install_path
EnvInit ==
    /\ install_tree \in InstallTrees
    /\ read_dir_order \in {"forward", "reverse"}
    /\ env_pc = "installed"
    /\ layer_env = NoLayerEnv

EnvNext == ConfigureLayerEnvironment

\* install_packages has not reached configure_layer_environment
EnvIdle ==
    /\ install_tree = {}
    /\ read_dir_order = "forward"
    /\ env_pc = "idle"
    /\ layer_env = NoLayerEnv

\* rewrite_package_config reads the file and writes the rewritten lines
RewritePackageConfig ==
    /\ fn_pc = "rewrite_package_config"
    /\ new_contents' = join([i \in 1..Len(lines(package_config)) |->
                                rewrite_line(lines(package_config)[i])])
    /\ fn_pc' = "done"
    /\ UNCHANGED <<package_config, stanzaVars, packageNameVars, relationshipVars, errorVars,
                   structureVars>>
    /\ UNCHANGED <<resolverVars, installVars, indexVars, buildVars, httpVars, envVars>>

\* char::is_whitespace, of the characters the texts are made of
WhiteSpace == {" ", "\t"}

\* str::trim: the white space at both ends is taken off
RECURSIVE trim_start(_)
trim_start(text) ==
    IF Len(text) > 0 /\ text[1] \in WhiteSpace THEN trim_start(Tail(text)) ELSE text

RECURSIVE trim_end(_)
trim_end(text) ==
    IF Len(text) > 0 /\ text[Len(text)] \in WhiteSpace
    THEN trim_end(SubSeq(text, 1, Len(text) - 1))
    ELSE text

trim(text) == trim_end(trim_start(text))

\* the index of the first token of the text that is the separator, 0 if none
FirstIndexOf(text, sep) ==
    IF \E i \in 1..Len(text) : text[i] = sep
    THEN CHOOSE i \in 1..Len(text) : text[i] = sep /\ \A j \in 1..(i - 1) : text[j] # sep
    ELSE 0

\* the text before the first separator: str::split(sep).next()
BeforeFirst(text, sep) ==
    IF FirstIndexOf(text, sep) = 0 THEN text ELSE SubSeq(text, 1, FirstIndexOf(text, sep) - 1)

AfterFirst(text, sep) == SubSeq(text, FirstIndexOf(text, sep) + 1, Len(text))

\* the keys parse_parallel keeps
PACKAGE_KEY == "Package"
VERSION_KEY == "Version"
FILENAME_KEY == "Filename"
SHA256_KEY == "SHA256"
DEPENDS_KEY == "Depends"
PRE_DEPENDS_KEY == "Pre-Depends"
PROVIDES_KEY == "Provides"

StanzaKeys ==
    {PACKAGE_KEY, VERSION_KEY, FILENAME_KEY, SHA256_KEY, DEPENDS_KEY, PRE_DEPENDS_KEY,
     PROVIDES_KEY}

\* the lines a stanza may have: each key with a value, Version also without a
\* colon, and fields parse_parallel has no use for
StanzaLines ==
    {<<"Package", ":", " ", "a">>, <<"Version", ":", " ", "1", ":", "2">>, <<"Version", " ", "1">>,
     <<"Filename", ":", " ", "pool/a.deb", " ">>, <<"SHA256", ":", " ", "abc">>,
     <<"Depends", ":", " ", "b">>, <<"Pre-Depends", ":", " ", "c">>,
     <<"Provides", ":", " ", "v">>, <<"Package", "-Type", ":", " ", "deb">>,
     <<"Description", ":", " ", "Package", ":", " ", "x">>}

\* no field is given twice
Stanzas822 ==
    {st \in SUBSET StanzaLines :
        \A l, m \in st : BeforeFirst(l, ":") = BeforeFirst(m, ":") => l = m}

\* the HashMap collected from the lines that start with a key and have a colon
StanzaValues(contents) ==
    {<<BeforeFirst(line, ":"), AfterFirst(line, ":")>> :
        line \in {l \in contents : /\ \E key \in StanzaKeys : starts_with(l, key)
                                   /\ FirstIndexOf(l, ":") # 0}}

\* values.get(key).map(|v| v.trim().to_string()): <<>> is None, <<text>> Some
GetTrimmed(values, key) ==
    IF \E v \in values : v[1] = <<key>>
    THEN <<trim((CHOOSE v \in values : v[1] = <<key>>)[2])>>
    ELSE <<>>

ParseOk(package) == [type |-> "Ok", package |-> package]

ParseErr(error, package_name) ==
    [type |-> error, package |-> [name |-> package_name]]

parse_parallel_Sha256First(repository_uri, contents) ==
    LET values == StanzaValues(contents)
        field(key) == GetTrimmed(values, key)
    IN IF field(PACKAGE_KEY) = <<>> THEN ParseErr("MissingPackageName", <<>>)
       ELSE IF field(SHA256_KEY) = <<>> THEN ParseErr("MissingSha256", field(PACKAGE_KEY)[1])
       ELSE IF field(VERSION_KEY) = <<>> THEN ParseErr("MissingVersion", field(PACKAGE_KEY)[1])
       ELSE IF field(FILENAME_KEY) = <<>> THEN ParseErr("MissingFilename", field(PACKAGE_KEY)[1])
       ELSE ParseOk([repository_uri |-> repository_uri, name |-> field(PACKAGE_KEY)[1],
                     version |-> field(VERSION_KEY)[1], filename |-> field(FILENAME_KEY)[1],
                     sha256sum |-> field(SHA256_KEY)[1], depends |-> field(DEPENDS_KEY),
                     pre_depends |-> field(PRE_DEPENDS_KEY),
                     provides |-> field(PROVIDES_KEY)])

\* RepositoryPackage::parse_parallel
parse_parallel(repository_uri, contents) ==
    LET values == StanzaValues(contents)
        field(key) == GetTrimmed(values, key)
    IN IF field(PACKAGE_KEY) = <<>> THEN ParseErr("MissingPackageName", <<>>)
       ELSE IF field(VERSION_KEY) = <<>> THEN ParseErr("MissingVersion", field(PACKAGE_KEY)[1])
       ELSE IF field(FILENAME_KEY) = <<>> THEN ParseErr("MissingFilename", field(PACKAGE_KEY)[1])
       ELSE IF field(SHA256_KEY) = <<>> THEN ParseErr("MissingSha256", field(PACKAGE_KEY)[1])
       ELSE ParseOk([repository_uri |-> repository_uri, name |-> field(PACKAGE_KEY)[1],
                     version |-> field(VERSION_KEY)[1], filename |-> field(FILENAME_KEY)[1],
                     sha256sum |-> field(SHA256_KEY)[1], depends |-> field(DEPENDS_KEY),
                     pre_depends |-> field(PRE_DEPENDS_KEY),
                     provides |-> field(PROVIDES_KEY)])

NotParsed == [type |-> "none", package |-> [name |-> <<>>]]

\* read_packages parses one stanza of a package index
ParseParallel ==
    /\ fn_pc = "parse_parallel"
    /\ repository_package' = parse_parallel("repo", stanza)
    /\ fn_pc' = "done"
    /\ UNCHANGED <<packageConfigVars, stanza, packageNameVars, relationshipVars, errorVars,
                   structureVars>>
    /\ UNCHANGED <<resolverVars, installVars, indexVars, buildVars, httpVars, envVars>>

StanzaNone == stanza = {} /\ repository_package = NotParsed

\* a stanza was read from a package index
StanzaInit ==
    /\ fn_pc = "parse_parallel"
    /\ stanza \in Stanzas822
    /\ repository_package = NotParsed

MaxNameLen == 3

LowerCaseLetters == {"a", "z"}
UpperCaseLetters == {"A"}
Digits == {"0", "9"}

\* the characters a text may be made of
Chars == LowerCaseLetters \cup UpperCaseLetters \cup Digits \cup {"+", "-", ".", "_", "="}

Texts == UNION {[1..n -> Chars] : n \in 0..MaxNameLen}

\* matches!(c, 'a'..='z' | '0'..='9' | '+' | '-' | '.')
is_package_name_char(c) == c \in LowerCaseLetters \cup Digits \cup {"+", "-", "."}

is_ascii_alphanumeric(c) == c \in LowerCaseLetters \cup UpperCaseLetters \cup Digits

from_str_AnyLength(text) ==
    IF /\ \A i \in 1..Len(text) : is_package_name_char(text[i])
       /\ Len(text) >= 1 /\ is_ascii_alphanumeric(text[1])
    THEN [type |-> "Ok", name |-> text]
    ELSE [type |-> "ParsePackageNameError", name |-> text]

\* PackageName::from_str
from_str(text) ==
    IF /\ \A i \in 1..Len(text) : is_package_name_char(text[i])
       /\ Len(text) >= 2
       /\ Len(text) >= 1 /\ is_ascii_alphanumeric(text[1])
    THEN [type |-> "Ok", name |-> text]
    ELSE [type |-> "ParsePackageNameError", name |-> text]

\* PackageName::as_str and the Display of a PackageName: the string it holds
as_str(name) == name.name

NoPackageName == [type |-> "none", name |-> <<>>]

\* a package name is parsed
FromStr ==
    /\ fn_pc = "from_str"
    /\ from_str_result' = from_str(from_str_value)
    /\ fn_pc' = "done"
    /\ UNCHANGED <<packageConfigVars, stanzaVars, from_str_value, relationshipVars, errorVars,
                   structureVars>>
    /\ UNCHANGED <<resolverVars, installVars, indexVars, buildVars, httpVars, envVars>>

PackageNameNone == from_str_value = <<>> /\ from_str_result = NoPackageName

\* a text is to be read as a package name
PackageNameInit ==
    /\ fn_pc = "from_str"
    /\ from_str_value \in Texts
    /\ from_str_result = NoPackageName

MaxEntries == 2

\* the entries a relationship field may have
RelationshipEntries ==
    {<<"a">>, <<" ", "a", " ">>, <<"a", ":", "any">>, <<"a", ":", "amd64">>,
     <<" ", "a", " ", "|", " ", "b">>, <<" ", "b", " ", "(>=", " ", "1", ":", "2)">>,
     <<"b", " ", "(>=", " ", "1)", " ", "[riscv64]">>, <<"b", "\t", "(>=", " ", "1)">>,
     <<" ">>, <<>>}

\* a field that the stanza did not have, and one that it had
NoField == [some |-> FALSE, entries |-> <<>>]
Field(entries) == [some |-> TRUE, entries |-> entries]

\* the fields of up to max entries
RelationshipFields(max) ==
    {NoField} \cup {Field(es) : es \in UNION {[1..n -> RelationshipEntries] : n \in 1..max}}

\* the text of a field: its entries with commas between them
RECURSIVE JoinEntries(_)
JoinEntries(entries) ==
    IF Len(entries) = 0 THEN <<>>
    ELSE IF Len(entries) = 1 THEN entries[1]
    ELSE entries[1] \o <<",">> \o JoinEntries(Tail(entries))

\* the Option<String> of the field: <<>> is None, <<text>> Some
FieldText(field) == IF field.some THEN <<JoinEntries(field.entries)>> ELSE <<>>

\* str::split(sep): the pieces between the separators
RECURSIVE split(_, _)
split(text, sep) ==
    IF FirstIndexOf(text, sep) = 0 THEN <<text>>
    ELSE <<BeforeFirst(text, sep)>> \o split(AfterFirst(text, sep), sep)

dependency_name_UntilComma(dependency) == trim(dependency)

\* the name get_dependencies reads from one piece of a field
dependency_name(dependency) ==
    trim(BeforeFirst(BeforeFirst(trim(dependency), " "), ":"))

\* the names get_dependencies reads from one field
FieldDependencies(field_text) ==
    {name \in {dependency_name(split(field_text, ",")[i]) :
                    i \in 1..Len(split(field_text, ","))} : name # <<>>}

\* RepositoryPackage::get_dependencies, of the texts of the two fields
get_dependencies_of(pre_depends, depends) ==
    UNION {FieldDependencies(field[1]) : field \in {f \in {pre_depends, depends} : f # <<>>}}

\* the dependencies of a package are read from its fields
GetDependencies ==
    /\ fn_pc = "get_dependencies"
    /\ dependency_names' = get_dependencies_of(FieldText(relationships.pre_depends),
                                           FieldText(relationships.depends))
    /\ fn_pc' = "done"
    /\ UNCHANGED <<packageConfigVars, stanzaVars, packageNameVars, relationships, errorVars,
                   structureVars>>
    /\ UNCHANGED <<resolverVars, installVars, indexVars, buildVars, httpVars, envVars>>

RelationshipsNone ==
    /\ relationships = [pre_depends |-> NoField, depends |-> NoField]
    /\ dependency_names = {}

\* a package of the index has these two fields
RelationshipsInit ==
    /\ fn_pc = "get_dependencies"
    /\ relationships \in [pre_depends : RelationshipFields(1),
                            depends : RelationshipFields(MaxEntries)]
    /\ dependency_names = {}

\* ErrorType
Internal == [kind |-> "Internal", suggest_retry_build |-> FALSE, suggest_submit_issue |-> FALSE]

UserFacing(suggest_retry_build, suggest_submit_issue) ==
    [kind |-> "UserFacing", suggest_retry_build |-> suggest_retry_build,
     suggest_submit_issue |-> suggest_submit_issue]

\* the CreatePackageIndexError variants that on_create_package_index_error reports
CreatePackageIndexErrors ==
    {"NoSources", "TaskFailed", "InvalidLayerName", "GetReleaseRequest",
     "ReadGetReleaseResponse", "CreatePgpCertificate", "CreatePgpVerifier",
     "WriteReleaseLayer", "ReadReleaseFile", "ParseReleaseFile",
     "MissingSha256ReleaseHashes", "MissingPackageIndexReleaseHash", "GetPackagesRequest",
     "WritePackagesLayer", "WritePackageIndexFromResponse", "ChecksumFailed"}

\* the paragraphs create_error puts after the header and the body
create_error(error_type) ==
    [error_type |-> error_type,
     message_parts |->
        <<"header", "body">>
           \o (IF error_type.kind = "Internal" THEN <<"share your buildpack log">> ELSE <<>>)
           \o (IF error_type.kind = "UserFacing" /\ error_type.suggest_retry_build
               THEN <<"retry your build">> ELSE <<>>)
           \o (IF error_type.kind = "UserFacing" /\ error_type.suggest_submit_issue
               THEN <<"open an issue">> ELSE <<>>)]

on_create_package_index_error_VerifierUserFacing(error) ==
    create_error(
        IF error \in {"NoSources", "TaskFailed", "InvalidLayerName", "CreatePgpCertificate",
                      "WriteReleaseLayer", "ReadReleaseFile", "WritePackagesLayer"}
        THEN Internal
        ELSE IF error = "ChecksumFailed" THEN UserFacing(TRUE, FALSE)
        ELSE UserFacing(TRUE, TRUE))

on_create_package_index_error(error) ==
    create_error(
        IF error \in {"NoSources", "TaskFailed", "InvalidLayerName", "CreatePgpCertificate",
                      "CreatePgpVerifier", "WriteReleaseLayer", "ReadReleaseFile",
                      "WritePackagesLayer"}
        THEN Internal
        ELSE IF error = "ChecksumFailed" THEN UserFacing(TRUE, FALSE)
        ELSE UserFacing(TRUE, TRUE))

NoErrorMessage == [error_type |-> [kind |-> "none"], message_parts |-> <<>>]

\* on_error prints the message of the error the build failed with
OnError ==
    /\ fn_pc = "on_error"
    /\ error_message' = on_create_package_index_error(reported_error)
    /\ fn_pc' = "done"
    /\ UNCHANGED <<packageConfigVars, stanzaVars, packageNameVars, relationshipVars,
                   reported_error,
                   structureVars>>
    /\ UNCHANGED <<resolverVars, installVars, indexVars, buildVars, httpVars, envVars>>

ReportedErrorNone == reported_error = "none" /\ error_message = NoErrorMessage

\* create_package_index failed with one of its errors
ReportedErrorInit ==
    /\ fn_pc = "on_error"
    /\ reported_error \in CreatePackageIndexErrors
    /\ error_message = NoErrorMessage

MaxLayers == 2

\* the layers a message may have
MessageLayers ==
    {SignatureGroup(r) : r \in UNION {[1..n -> {"good", "bad"}] : n \in 0..2}}
       \cup {Compression, Encryption}

MessageStructures == UNION {[1..n -> MessageLayers] : n \in 0..MaxLayers}

NotChecked == [ok |-> FALSE, error |-> "none"]

\* the verifier hands the structure of the message to the helper
Check ==
    /\ fn_pc = "check"
    /\ check_result' = CertHelper_check(message_structure)
    /\ fn_pc' = "done"
    /\ UNCHANGED <<packageConfigVars, stanzaVars, packageNameVars, relationshipVars, errorVars,
                   message_structure>>
    /\ UNCHANGED <<resolverVars, installVars, indexVars, buildVars, httpVars, envVars>>

StructureNone == message_structure = <<>> /\ check_result = NotChecked

\* a message was read by the verifier
StructureInit ==
    /\ fn_pc = "check"
    /\ message_structure \in MessageStructures
    /\ check_result = NotChecked

PackageConfigNone == package_config = <<>> /\ new_contents = <<>>

\* a *.pc file was unpacked
PackageConfigInit ==
    /\ fn_pc = "rewrite_package_config"
    /\ package_config \in PackageConfigs
    /\ new_contents = <<>>

FnInit ==
    \/ PackageConfigInit /\ StanzaNone /\ PackageNameNone /\ RelationshipsNone
          /\ ReportedErrorNone /\ StructureNone
    \/ StanzaInit /\ PackageConfigNone /\ PackageNameNone /\ RelationshipsNone
          /\ ReportedErrorNone /\ StructureNone
    \/ PackageNameInit /\ PackageConfigNone /\ StanzaNone /\ RelationshipsNone
          /\ ReportedErrorNone /\ StructureNone
    \/ RelationshipsInit /\ PackageConfigNone /\ StanzaNone /\ PackageNameNone
          /\ ReportedErrorNone /\ StructureNone
    \/ ReportedErrorInit /\ PackageConfigNone /\ StanzaNone /\ PackageNameNone
          /\ RelationshipsNone /\ StructureNone
    \/ StructureInit /\ PackageConfigNone /\ StanzaNone /\ PackageNameNone
          /\ RelationshipsNone /\ ReportedErrorNone

FnNext ==
    \/ RewritePackageConfig
    \/ ParseParallel
    \/ FromStr
    \/ GetDependencies
    \/ OnError
    \/ Check

\* no function is being applied
FnIdle ==
    /\ fn_pc = "idle"
    /\ PackageConfigNone
    /\ StanzaNone
    /\ PackageNameNone
    /\ RelationshipsNone
    /\ ReportedErrorNone
    /\ StructureNone

\* the resolver is not running
ResolverIdle ==
    /\ package_index = EmptyIndex
    /\ add_package_calls = <<>>
    /\ system_packages = {}
    /\ requested = <<>>
    /\ packages_marked_for_install = <<>>
    /\ visit_stack = <<>>
    /\ package_notifications = <<>>
    /\ frames = <<>>
    /\ marked_at_start = {}
    /\ resolve_pc = "idle"
    /\ resolve_error = NoError
    /\ packages_to_install = <<>>

\* no build has reached install_packages
InstallIdle ==
    /\ builds = 0
    /\ install_pc = "idle"
    /\ distro = ""
    /\ install_list = <<>>
    /\ packages_layer = NoLayer
    /\ old_metadata = NoMetadata
    /\ install_layer_state = LayerState("None", "")
    /\ task = [n \in InstallNames |-> NoTask]
    /\ temp_dir = {}
    /\ install_error = NoInstallError
    /\ extraction = [n \in InstallNames |-> NoExtraction]
    /\ postinst_file = <<>>
    /\ executed = <<>>
    /\ package_config_files = [n \in InstallNames |-> NoFile]

(***************************************************************************)
(* Specifications.                                                         *)
(***************************************************************************)
Init == ResolverInit /\ InstallIdle /\ IndexIdle /\ BuildIdle /\ HttpInit /\ EnvIdle /\ FnIdle

Next == ResolverNext

Spec == Init /\ [][Next]_vars

\* the resolver on indexes where a package name is also provided by another package
InitShadowed ==
    ResolverInitShadowed /\ InstallIdle /\ IndexIdle /\ BuildIdle /\ HttpInit /\ EnvIdle /\ FnIdle

SpecShadowed == InitShadowed /\ [][Next]_vars

InitInstall == InstallInit /\ ResolverIdle /\ IndexIdle /\ BuildIdle /\ HttpInit /\ EnvIdle /\ FnIdle

NextInstall == InstallNext

SpecInstall == InitInstall /\ [][NextInstall]_vars

\* a package index is filled with packages that provide virtual packages
InitProviders ==
    PackageIndexInit /\ InstallIdle /\ IndexIdle /\ BuildIdle /\ HttpInit /\ EnvIdle /\ FnIdle

NextProviders == \E p \in ProvidingPackages : AddPackage(p)

SpecProviders == InitProviders /\ [][NextProviders]_vars

InitPackageIndex == PackageIndexInit /\ InstallIdle /\ IndexIdle /\ BuildIdle /\ HttpInit /\ EnvIdle /\ FnIdle

NextPackageIndex == PackageIndexNext

SpecPackageIndex == InitPackageIndex /\ [][NextPackageIndex]_vars

InitIndex == IndexInit /\ ResolverIdle /\ InstallIdle /\ BuildIdle /\ HttpInit /\ EnvIdle /\ FnIdle

NextIndex == IndexNext

SpecIndex == InitIndex /\ [][NextIndex]_vars

\* builds that also follow failed builds, on the layers those left behind
NextIndexRetained ==
    \/ IndexNext
    \/ ReadReleaseFileFailed
    \/ \E r \in Responses : BuildAfterFailure(r)

SpecIndexRetained == InitIndex /\ [][NextIndexRetained]_vars

InitBuild == BuildInit /\ ResolverIdle /\ InstallInit /\ IndexInit /\ HttpInit /\ EnvIdle /\ FnIdle

NextBuild == BuildNext

SpecBuild == InitBuild /\ [][NextBuild]_vars

InitHttp == HttpInit /\ ResolverIdle /\ InstallIdle /\ IndexIdle /\ BuildIdle /\ EnvIdle /\ FnIdle

NextHttp == HttpNext

SpecHttp == InitHttp /\ [][NextHttp]_vars

InitEnvironment ==
    EnvInit /\ ResolverIdle /\ InstallIdle /\ IndexIdle /\ BuildIdle /\ HttpInit /\ FnIdle

NextEnvironment == EnvNext

SpecEnvironment == InitEnvironment /\ [][NextEnvironment]_vars

InitFunctions ==
    FnInit /\ ResolverIdle /\ InstallIdle /\ IndexIdle /\ BuildIdle /\ HttpInit /\ EnvIdle

NextFunctions == FnNext

SpecFunctions == InitFunctions /\ [][NextFunctions]_vars

(***************************************************************************)
(* Properties of the resolver.                                             *)
(***************************************************************************)
Concrete(name) == Len(package_index.name_to_repository_packages[name]) > 0

\* every package name of the index with a version whose Provides lists the name
Providing(name) ==
    {n \in Names : \E p \in Range(package_index.name_to_repository_packages[n]) :
                      name \in p.provides}

NewlyMarked == MarkedNames(packages_marked_for_install) \ marked_at_start

NotificationsOfType(type) ==
    SelectSeq(package_notifications, LAMBDA n : n.type = type)

\* the outermost visit of the current request has returned Ok
RequestResolved == resolve_pc \in {"idle", "done"} /\ Len(requested) > 0

\* C7: a package whose name is in the system-package set is never added to
\* packages_marked_for_install; a visit of such a name records an
\* AlreadyInstalledOnSystem notification, marks nothing and does not fail.
C7_Step ==
    /\ MarkedNames(packages_marked_for_install') \cap system_packages' = {}
    /\ (Calling /\ Top.package \in system_packages) =>
          /\ AlreadyInstalledOnSystem(Top.package) \in Range(package_notifications')
          /\ packages_marked_for_install' = packages_marked_for_install
          /\ resolve_pc' = "visiting"

C7_SystemPackagesNeverMarked == [][C7_Step]_vars

\* a virtual package was requested whose single provider is on the system
C7_Witness ==
    /\ RequestResolved
    /\ \E i, j \in 1..Len(package_notifications) :
          /\ package_notifications[i].type = "VirtualPackageHasOnlyOneImplementor"
          /\ package_notifications[j].type = "AlreadyInstalledOnSystem"
          /\ package_notifications[j].name = package_notifications[i].name
          /\ Concrete(package_notifications[j].name)

\* where the walk goes from a name: nowhere from a name in stop, to the
\* dependencies of the highest version of a package, to the single provider of
\* a virtual name
WalkSuccessors(n, stop) ==
    IF n \in stop THEN {}
    ELSE IF Concrete(n) THEN get_dependencies(get_highest_available_version(package_index, n))
    ELSE IF Cardinality(Providing(n)) = 1 THEN Providing(n)
    ELSE {}

RECURSIVE WalkReach(_, _)
WalkReach(S, stop) ==
    LET T == S \cup UNION {WalkSuccessors(n, stop) : n \in S} IN
    IF T = S THEN S ELSE WalkReach(T, stop)

FrameWeight(f) ==
    IF f.kind = "call" THEN (IF Concrete(f.package) THEN 2 ELSE 5)
    ELSE 1 + 6 * Cardinality(f.todo)

RECURSIVE SumWeights(_)
SumWeights(fs) ==
    IF Len(fs) = 0 THEN 0 ELSE FrameWeight(fs[1]) + SumWeights(Tail(fs))

\* a measure of the work visit has left: the names not yet marked, the
\* dependencies not yet looked at, the calls not yet returned
Rank(marked, fs) ==
    6 * Cardinality(Names) * Cardinality(PkgNames \ MarkedNames(marked)) + SumWeights(fs)

AddedNames == {n.name : n \in Range(NotificationsOfType("Added"))}

MarkedOnceEach ==
    /\ Cardinality(MarkedNames(packages_marked_for_install)) = Len(packages_marked_for_install)
    /\ AddedNames = NewlyMarked
    /\ Len(NotificationsOfType("Added")) = Cardinality(NewlyMarked)

\* C8 as stated: visit marks exactly the packages reachable from the requested
\* package that are not on the system, each once, with one Added notification
\* per marked name.
C8_AsStated ==
    (RequestResolved /\ ~Request.skip_dependencies) =>
        /\ NewlyMarked =
              {n \in WalkReach({Request.name}, {}) : Concrete(n)}
                 \ (system_packages \cup marked_at_start)
        /\ MarkedOnceEach

\* C8, amended: visit terminates on every index, cycles included (every step of
\* a visit decreases Rank); when it returns Ok for a request without
\* skip_dependencies it has marked exactly the packages reachable from the
\* requested name along dependency paths that do not pass through a package on
\* the system or a package marked before the visit began, each once, with one
\* Added notification per marked name.
C8_Step ==
    /\ (resolve_pc = "visiting" /\ resolve_pc' = "visiting") =>
          Rank(packages_marked_for_install', frames')
             < Rank(packages_marked_for_install, frames)
    /\ (RequestResolved /\ ~Request.skip_dependencies)' =>
          (/\ NewlyMarked =
                 {n \in WalkReach({Request.name}, system_packages \cup marked_at_start) :
                     Concrete(n)} \ (system_packages \cup marked_at_start)
           /\ MarkedOnceEach)'

C8_VisitTerminatesAndMarksWalk == [][C8_Step]_vars

\* a cycle through all three packages was resolved
C8_Witness ==
    /\ RequestResolved /\ ~Request.skip_dependencies
    /\ NewlyMarked = PkgNames
    /\ \A n \in PkgNames :
          n \in WalkReach(get_dependencies(get_highest_available_version(package_index, n)), {})

NoTwoMarkedWithTheSameName(marked) ==
    \A i, j \in 1..Len(marked) :
        marked[i].repository_package.name = marked[j].repository_package.name => i = j

\* visit is called with a name that is marked and is not on the system
VisitsMarkedName ==
    /\ Calling
    /\ Top.package \notin system_packages
    /\ Top.package \in MarkedNames(packages_marked_for_install)

\* C30: packages_marked_for_install never holds two entries with the same
\* package name; a visit of a name that is already marked adds nothing and
\* records AlreadyInstalledByOtherPackage for the marked entry, installed_by
\* being that entry's requested_by.
C30_Step ==
    /\ NoTwoMarkedWithTheSameName(packages_marked_for_install)
    /\ NoTwoMarkedWithTheSameName(packages_marked_for_install')
    /\ VisitsMarkedName =>
          /\ packages_marked_for_install' = packages_marked_for_install
          /\ \E i \in 1..Len(packages_marked_for_install) :
                LET m == packages_marked_for_install[i] IN
                /\ m.repository_package.name = Top.package
                /\ [type |-> "AlreadyInstalledByOtherPackage",
                     name |-> m.repository_package.name,
                     version |-> m.repository_package.version,
                     detail |-> <<m.requested_by>>] \in Range(package_notifications')

C30_MarkedOnceAndReportedAsInstalledByOther == [][C30_Step]_vars

\* a requested package had been pulled in as a dependency of an earlier request
C30_Witness ==
    /\ Len(requested) >= 2
    /\ RequestResolved
    /\ \E i \in 1..Len(packages_marked_for_install) :
          LET m == packages_marked_for_install[i] IN
          /\ m.repository_package.name = Request.name
          /\ m.requested_by # Request.name
          /\ \E n \in Range(package_notifications) :
                /\ n.type = "AlreadyInstalledByOtherPackage"
                /\ n.name = Request.name
                /\ n.detail = <<m.requested_by>>

\* the single provider of a requested virtual package was already marked
C30_MarkedProviderHappens ==
    /\ RequestResolved
    /\ ~Concrete(Request.name)
    /\ \E n, v \in Range(package_notifications) :
          /\ n.type = "AlreadyInstalledByOtherPackage"
          /\ v.type = "VirtualPackageHasOnlyOneImplementor"
          /\ v.detail = <<Request.name>>
          /\ n.name = v.name
    /\ NewlyMarked = {}

\* visit is called with a name the index has a package for, neither on the
\* system nor marked
VisitsConcreteName ==
    /\ Calling
    /\ Top.package \notin system_packages
    /\ Top.package \notin MarkedNames(packages_marked_for_install)
    /\ Concrete(Top.package)

\* C31: the virtual-package map is consulted only when the visited name has no
\* package in the index: a visit of a name that has one, also when other
\* packages list the name in Provides, marks the highest version of that very
\* name and records Added for it; it marks no provider, records no
\* VirtualPackageHasOnlyOneImplementor and fails with no error for the name.
C31_Step ==
    /\ VisitsConcreteName =>
          /\ packages_marked_for_install' =
                Append(packages_marked_for_install,
                       PackageMarkedForInstall(
                           get_highest_available_version(package_index, Top.package),
                           FirstOr(visit_stack, Top.package)))
          /\ package_notifications' =
                IndexSetInsert(package_notifications,
                    Added(get_highest_available_version(package_index, Top.package),
                          visit_stack))
          /\ resolve_pc' = "visiting"
          /\ resolve_error' = NoError
    /\ \A n \in Range(package_notifications') :
          n.type = "VirtualPackageHasOnlyOneImplementor" => ~Concrete(n.detail[1])
    /\ resolve_error'.type # "none" => ~Concrete(resolve_error'.package)

C31_ConcreteNameShadowsProviders == [][C31_Step]_vars

\* the requested package is listed in the Provides of a package that is neither
\* on the system nor marked: the request resolved to the package itself
C31_Witness ==
    /\ RequestResolved
    /\ Concrete(Request.name)
    /\ Providing(Request.name) # {}
    /\ Providing(Request.name) \cap (system_packages
                                        \cup MarkedNames(packages_marked_for_install)) = {}
    /\ Request.name \in NewlyMarked
    /\ \E n \in Range(package_notifications) : n.type = "Added" /\ n.name = Request.name

\* C35 as stated: whenever a call of visit returns Ok, visit_stack holds the
\* elements, in the order, it held when the call was entered, also when a
\* virtual name is visited again further down its own dependency path.
C35_Step ==
    (resolve_pc = "visiting" /\ Len(frames) > 0 /\ frames' = Pop)
        => visit_stack' = Top.entered_with

C35_AsStated == [][C35_Step]_vars

\* the run that refutes it: the visit of a virtual name that was on the stack
\* when it was entered has returned and taken the name off the stack
C35_VirtualNameRemovedBelowItself ==
    /\ resolve_pc = "visiting"
    /\ Len(frames) > 0
    /\ Top.kind = "deps"
    /\ \E n \in Names \ Range(visit_stack) :
          \E i \in 1..Len(frames) : frames[i].kind = "virtual" /\ frames[i].package = n

\* the names a request leads visit to, whatever the order of the dependencies:
\* with skip_dependencies the name and, for a virtual name, its single provider
VisitedNames(name, skip_dependencies, stop) ==
    IF ~skip_dependencies THEN WalkReach({name}, stop)
    ELSE IF name \notin stop /\ ~Concrete(name) /\ Cardinality(Providing(name)) = 1
    THEN {name} \cup Providing(name)
    ELSE {name}

\* a visit of the name returns an error
FailsWhenVisited(name, stop) ==
    name \notin stop /\ ~Concrete(name) /\ Cardinality(Providing(name)) # 1

\* the outcome of the first i of the requests as a function of the index, the
\* system packages and the requests alone
RECURSIVE ResolutionOfRequests(_, _)
ResolutionOfRequests(requests, i) ==
    IF i = 0 THEN [ok |-> TRUE, marked |-> {}]
    ELSE LET before == ResolutionOfRequests(requests, i - 1)
             stop == system_packages \cup before.marked
             visited == VisitedNames(requests[i].name, requests[i].skip_dependencies, stop)
         IN IF ~before.ok \/ \E n \in visited : FailsWhenVisited(n, stop)
            THEN [ok |-> FALSE, marked |-> {}]
            ELSE [ok |-> TRUE,
                  marked |-> before.marked \cup {n \in visited \ stop : Concrete(n)}]

ResolutionOf(i) == ResolutionOfRequests(requested, i)

\* C36: for a fixed index, system-package set and requested packages, whether
\* the resolution succeeds and the set of package names it marks are the same
\* for every order in which the get_dependencies() set of a package is
\* iterated: both are the values of a function of these inputs.
C36_OutcomeIndependentOfDependencyOrder ==
    /\ resolve_pc = "failed" => ~ResolutionOf(Len(requested)).ok
    /\ RequestResolved =>
          /\ ResolutionOf(Len(requested)).ok
          /\ MarkedNames(packages_marked_for_install) = ResolutionOf(Len(requested)).marked

\* a's dependencies b and c were visited c first, and both were marked
C36_Witness ==
    /\ RequestResolved
    /\ Len(requested) = 1 /\ Request.name = "a"
    /\ [i \in 1..Len(packages_marked_for_install) |->
           packages_marked_for_install[i].repository_package.name] = <<"a", "c", "b">>
    /\ get_dependencies(packages_marked_for_install[1].repository_package) = {"b", "c"}
    /\ get_dependencies(packages_marked_for_install[2].repository_package) = {}

\* a dependency that fails was reached after another dependency was marked
C36_FailureAfterMarkHappens ==
    /\ resolve_pc = "failed"
    /\ Len(requested) = 1
    /\ Len(packages_marked_for_install) = 2

\* the requests in every order
Reorderings(requests) ==
    {[i \in 1..Len(requests) |-> requests[q[i]]] :
        q \in {f \in [1..Len(requests) -> 1..Len(requests)] :
                  \A i, j \in 1..Len(requests) : f[i] = f[j] => i = j}}

\* C37 as stated: for a fixed index and system-package set, the set of package
\* names determine_packages_to_install marks is the same for every order of
\* the requested packages, also when some have skip_dependencies = true and
\* others depend on them. The resolution of the requests in another order is
\* the one C36 shows every run of that order to have.
C37_AsStated ==
    (resolve_pc = "done") =>
        \A requests \in Reorderings(requested) :
            ResolutionOfRequests(requests, Len(requests)).ok =>
                ResolutionOfRequests(requests, Len(requests)).marked
                    = MarkedNames(packages_marked_for_install)

\* the run that refutes it: b was requested with skip_dependencies before a,
\* which depends on b, so that a dependency of b is not marked
C37_SkippedFirstLosesDependency ==
    /\ resolve_pc = "done"
    /\ requested = <<RequestedPackage("b", TRUE), RequestedPackage("a", FALSE)>>
    /\ system_packages = {}
    /\ "b" \in get_dependencies(get_highest_available_version(package_index, "a"))
    /\ "c" \in get_dependencies(get_highest_available_version(package_index, "b"))
    /\ MarkedNames(packages_marked_for_install) = {"a", "b"}
    /\ ResolutionOfRequests(<<requested[2], requested[1]>>, 2).marked = {"a", "b", "c"}

NoRequestSkipsDependencies ==
    \A i \in 1..Len(requested) : ~requested[i].skip_dependencies

\* the name is on the system or the name of a marked package
Satisfied(name) ==
    name \in system_packages \cup MarkedNames(packages_marked_for_install)

\* C38: when no requested package sets skip_dependencies and resolution
\* succeeds, the result is closed under dependencies: every name d in
\* get_dependencies() of every marked package is on the system, or the name of
\* a marked package, or a virtual name whose single provider is on the system
\* or marked.
C38_ClosedUnderDependencies ==
    (resolve_pc = "done" /\ NoRequestSkipsDependencies) =>
        \A i \in 1..Len(packages_marked_for_install) :
            \A d \in get_dependencies(packages_marked_for_install[i].repository_package) :
                \/ Satisfied(d)
                \/ /\ ~Concrete(d)
                   /\ Cardinality(Providing(d)) = 1
                   /\ \A provider \in Providing(d) : Satisfied(provider)

\* a resolution without skip_dependencies whose marked packages have a
\* dependency of each kind: on the system, marked, and a virtual name with a
\* marked provider
C38_Witness ==
    /\ resolve_pc = "done" /\ NoRequestSkipsDependencies
    /\ \E i, j, k \in 1..Len(packages_marked_for_install) :
        /\ \E d \in get_dependencies(packages_marked_for_install[i].repository_package) :
              d \in system_packages
        /\ \E d \in get_dependencies(packages_marked_for_install[j].repository_package) :
              d \in MarkedNames(packages_marked_for_install)
        /\ \E d \in get_dependencies(packages_marked_for_install[k].repository_package) :
              /\ ~Satisfied(d) /\ ~Concrete(d)
              /\ Providing(d) \subseteq MarkedNames(packages_marked_for_install)

\* C9: when visit looks up a name (one neither on the system nor marked) that has
\* no package in the index: with exactly one providing package name the highest
\* version of that provider is visited in its place and a
\* VirtualPackageHasOnlyOneImplementor notification is recorded; with none the
\* resolution fails with PackageNotFound(name); with two or more it fails with
\* VirtualPackageMustBeSpecified(name, providers), providers being every
\* providing package name.
C9_Step ==
    (Calling /\ NotSkippedAtEntry(Top.package) /\ ~Concrete(Top.package)) =>
        LET name == Top.package
            providers == Providing(name) IN
        /\ Cardinality(providers) = 1 =>
              LET p == get_highest_available_version(package_index,
                                                     CHOOSE n \in providers : TRUE) IN
              /\ resolve_pc' = "visiting"
              /\ frames' = Append(Append(Pop, VirtualFrame(name, p, Top.entered_with)),
                                  CallFrame(p.name, IndexSetInsert(visit_stack, name)))
              /\ VirtualPackageHasOnlyOneImplementor(name, p) \in Range(package_notifications')
        /\ providers = {} =>
              resolve_pc' = "failed" /\ resolve_error' = PackageNotFound(name)
        /\ Cardinality(providers) > 1 =>
              /\ resolve_pc' = "failed"
              /\ resolve_error' = VirtualPackageMustBeSpecified(name, providers)

C9_VirtualPackageResolution == [][C9_Step]_vars

\* a dependency on a virtual name with two providers failed the resolution
C9_Witness ==
    /\ resolve_pc = "failed"
    /\ resolve_error.type = "VirtualPackageMustBeSpecified"
    /\ Cardinality(resolve_error.providers) = 2
    /\ Len(packages_marked_for_install) > 0

\* the package that stands for a requested name: the name itself, or the single
\* provider of a virtual name
RequestTargets(name) ==
    IF Concrete(name) THEN {name}
    ELSE IF Cardinality(Providing(name)) = 1 THEN Providing(name) ELSE {}

\* C10: resolving a requested package P with skip_dependencies = true marks P
\* itself (P's single provider when P is virtual) and no other package, whatever
\* its Depends and Pre-Depends hold; P is still marked, unless it is on the
\* system or already marked.
C10_SkipDependenciesMarksOnlyThePackage ==
    (Len(requested) > 0 /\ Request.skip_dependencies) =>
        /\ NewlyMarked \subseteq RequestTargets(Request.name)
        /\ (RequestResolved /\ Request.name \notin system_packages) =>
              RequestTargets(Request.name)
                 \subseteq MarkedNames(packages_marked_for_install) \cup system_packages

\* a package with dependencies that are neither installed nor marked was
\* resolved with skip_dependencies
C10_Witness ==
    /\ RequestResolved /\ Request.skip_dependencies
    /\ NewlyMarked = {Request.name}
    /\ \E d \in get_dependencies(get_highest_available_version(package_index, Request.name)) :
          /\ Concrete(d)
          /\ d \notin system_packages \cup MarkedNames(packages_marked_for_install)

(***************************************************************************)
(* Properties of the installer.                                            *)
(***************************************************************************)
InstallListNames == {install_list[i].name : i \in 1..Len(install_list)}

\* what the layer holds when exactly the packages of install_list are unpacked
FilesOf(packages) ==
    UNION {Unpack(DebBytes(packages[i].name, packages[i].version)) : i \in 1..Len(packages)}

LayerOpened == install_layer_state.state # "None"

\* C1 as the specification states it: when the metadata stored in the packages
\* layer equals the metadata of this build, the layer is kept (Restored) and no
\* package is downloaded.
C1_EqualMetadataRestoresLayer ==
    (LayerOpened /\ old_metadata.valid
        /\ old_metadata = InstallationMetadata(distro, install_list))
    => /\ install_layer_state.state = "Restored"
       /\ \A n \in InstallNames : task[n].pc = "none"

\* C2: a build that finds valid metadata differing from its own empties the
\* layer (cause RestoredLayerAction), starts downloads for packages of the new
\* selection only, never holds a file of another package, and once all tasks are
\* joined the layer holds exactly the files of the new selection.
C2_ChangedInstallInvalidatesLayer ==
    (LayerOpened /\ old_metadata.valid
        /\ old_metadata # InstallationMetadata(distro, install_list))
    => /\ install_layer_state = LayerState("Empty", "RestoredLayerAction")
       /\ packages_layer.metadata = InstallationMetadata(distro, install_list)
       /\ \A n \in InstallNames : task[n].pc # "none" => n \in InstallListNames
       /\ packages_layer.files \subseteq FilesOf(install_list)
       /\ install_pc \in {"post", "done"}
            => /\ packages_layer.files = FilesOf(install_list)
               /\ \A n \in InstallListNames : task[n].pc = "extracted"

\* the second build dropped package a, selected b, and completed
C2_Witness ==
    /\ builds = 2
    /\ install_pc = "done"
    /\ old_metadata.valid
    /\ \E c \in old_metadata.value.package_checksums : c[1] = "a"
    /\ InstallListNames = {"b"}
    /\ task["b"].pc = "extracted"

\* C3: a package is extracted only when the hash download computed equals the
\* sha256sum of its index entry; on a mismatch the task fails with
\* ChecksumFailed{url, expected, actual}, nothing of the served bytes is in the
\* layer, and install_packages does not return Ok.
C3_ExtractOnlyAfterChecksumMatch ==
    /\ install_pc \in {"installing", "post", "done", "failed"}
         => packages_layer.files \subseteq FilesOf(install_list)
    /\ \A n \in InstallListNames :
          LET p == InstallPackage(n) IN
          /\ task[n].pc \in {"downloaded", "extracted"}
               => task[n].calculated_hash = p.sha256sum
          /\ (task[n].calculated_hash # <<>> /\ task[n].calculated_hash # p.sha256sum)
               => /\ task[n].pc = "failed"
                  /\ task[n].error = ChecksumFailed(build_download_url(p), p.sha256sum,
                                                    task[n].calculated_hash)
                  /\ Unpack(ServedBytes(p, "corrupt")) \cap packages_layer.files = {}
                  /\ install_pc \notin {"post", "done"}

\* b was served corrupt bytes while a was extracted; the build failed on b
C3_Witness ==
    /\ InstallListNames = {"a", "b"}
    /\ install_pc = "failed"
    /\ install_error.type = "ChecksumFailed"
    /\ install_error.actual = Sha256(ServedBytes(InstallPackage("b"), "corrupt"))
    /\ task["b"].pc = "failed"
    /\ task["a"].pc = "extracted"
    /\ <<download_file_name(InstallPackage("b")), ServedBytes(InstallPackage("b"), "corrupt")>>
          \in temp_dir

\* the members of the .deb of package n of this build
ArchiveOf(n) == DebArchive(DebBytes(n, InstallPackage(n).version))

ControlMembers(n) == {m \in Range(ArchiveOf(n)) : m.file_stem = "control.tar"}

UnsupportedMembers(n) ==
    {m \in Range(ArchiveOf(n)) : /\ m.file_stem \in {"control.tar", "data.tar"}
                                 /\ m.extension \notin SupportedCompression}

\* the control archive of n can be read and has a postinst entry
HasPostinst(n) ==
    \E m \in ControlMembers(n) : /\ m.extension \in SupportedCompression
                                 /\ "postinst" \in m.entries

PostinstOf(n) == ControlEntry(DebBytes(n, InstallPackage(n).version), "postinst")

ExecutedBy(n) == {i \in 1..Len(executed) : executed[i].by = n}

C15_ControlCompressionFails ==
    /\ "b" \in InstallListNames
    /\ task["b"].pc = "failed"
    /\ task["b"].error = UnsupportedCompression(download_file_name(InstallPackage("b")), "bz2")

\* C16 as stated: a package whose control archive has a postinst entry has,
\* once extracted, executed exactly one script, its own postinst; a package
\* whose control archive has none has executed nothing, and when no package of
\* the build has one there is no postinst file in the layer.
C16_AsStated ==
    /\ \A n \in InstallListNames :
          /\ (task[n].pc = "extracted" /\ HasPostinst(n))
               => /\ Cardinality(ExecutedBy(n)) = 1
                  /\ \A i \in ExecutedBy(n) : executed[i].script = PostinstOf(n)
          /\ ~HasPostinst(n) => ExecutedBy(n) = {}
          /\ task[n].pc # "extracted" => ExecutedBy(n) = {}
    /\ (install_layer_state.state = "Empty" /\ \A n \in InstallListNames : ~HasPostinst(n))
         => postinst_file = <<>>

\* the run that refutes it: a executed the postinst of b
C16_ExecutedAnotherPostinst ==
    /\ InstallListNames = {"a", "b"}
    /\ \E i \in ExecutedBy("a") : executed[i].script = PostinstOf("b")

\* the packages of the build whose control archive has a postinst entry
PostinstPackages == {n \in InstallListNames : HasPostinst(n)}

\* C33 as stated: when several packages with a postinst script are installed
\* concurrently into the layer, every script a download_and_extract task
\* executes is the postinst of the task's own package, and a task that has
\* returned Ok has executed it exactly once.
C33_AsStated ==
    Cardinality(PostinstPackages) >= 2 =>
        /\ \A i \in 1..Len(executed) : executed[i].script = PostinstOf(executed[i].by)
        /\ \A n \in PostinstPackages :
              /\ Cardinality(ExecutedBy(n)) <= 1
              /\ task[n].pc = "extracted" => Cardinality(ExecutedBy(n)) = 1

\* the run that refutes it: both tasks returned Ok and the postinst of b was
\* executed twice, that of a never
C33_OneScriptExecutedTwice ==
    /\ PostinstPackages = {"a", "b"}
    /\ task["a"].pc = "extracted" /\ task["b"].pc = "extracted"
    /\ Len(executed) = 2
    /\ \A i \in 1..Len(executed) : executed[i].script = PostinstOf("b")

\* the download_and_extract tasks that have not returned
RunningTasks == {n \in InstallNames : task[n].pc \in {"spawned", "downloaded"}}

\* C27: when a task of a stage fails, the result of the stage is the error of
\* the first failing task seen at the join, and the sibling tasks that are
\* still running are left to run to completion, not cancelled.
C27_AsStated ==
    /\ install_pc = "failed" => \E n \in InstallNames : /\ task[n].pc = "failed"
                                                        /\ install_error = task[n].error
    /\ \A n \in InstallNames : task[n].pc # "aborted"

\* C27, corrected: the result of the stage is the error of the failing task
\* seen at the join, and the sibling tasks that are still running then are
\* cancelled: none of them runs on after the stage has returned.
C27_SiblingsAreAborted ==
    install_pc = "failed"
       => /\ \E n \in InstallNames : /\ task[n].pc = "failed"
                                       /\ install_error = task[n].error
          /\ RunningTasks = {}

\* install_packages failed with the error of b while a was still downloading
C27_Witness ==
    /\ install_pc = "failed"
    /\ task["b"].pc = "failed"
    /\ install_error = task["b"].error
    /\ task["a"].pc = "aborted"

(***************************************************************************)
(* Properties of build.                                                    *)
(***************************************************************************)
\* the variables a running resolution changes
resolutionVars == <<requested, packages_marked_for_install, visit_stack,
                    package_notifications, frames, marked_at_start, resolve_pc,
                    resolve_error, packages_to_install>>

\* C17: index creation, resolution and installation run strictly in that
\* order, each only after the stage before it returned Ok; a stage that fails
\* ends build with its error and nothing runs after build returned. When
\* resolution fails nothing was downloaded and the packages layer is as it was
\* before the build, whatever was resolved before the failing package.
C17_Step ==
    /\ build_pc \notin {"done", "failed"}
    /\ indexVars' # indexVars
         => /\ build_pc = "create_package_index"
            /\ resolve_pc = "idle" /\ requested = <<>>
            /\ install_pc = "idle"
    /\ resolutionVars' # resolutionVars
         => /\ build_pc = "determine_packages_to_install"
            /\ index_pc = "done"
            /\ install_pc = "idle"
    /\ installVars' # installVars
         => /\ build_pc = "install_packages"
            /\ index_pc = "done"
            /\ resolve_pc = "done"
    /\ index_pc = "failed"
         => /\ build_pc' = "failed" /\ build_result' = Err(index_error)
            /\ UNCHANGED <<resolverVars, installVars>>
    /\ resolve_pc = "failed"
         => /\ build_pc' = "failed" /\ build_result' = Err(resolve_error)
            /\ UNCHANGED installVars
    /\ resolve_pc' = "failed"
         => /\ builds' = 0 /\ install_pc' = "idle"
            /\ temp_dir' = {}
            /\ install_layer_state'.state = "None"
            /\ UNCHANGED packages_layer
    /\ install_pc = "failed"
         => build_pc' = "failed" /\ build_result' = Err(install_error)

C17_StagesInOrderStopAtFirstFailure == [][C17_Step]_vars

\* a was resolved, then b was not found: build failed with PackageNotFound,
\* install_packages never ran and the layer of an earlier build is untouched
C17_Witness ==
    /\ build_pc = "failed"
    /\ config.install = <<RequestedPackage("a", FALSE), RequestedPackage("b", FALSE)>>
    /\ build_result = Err(PackageNotFound("b"))
    /\ "a" \in MarkedNames(packages_marked_for_install)
    /\ index_pc = "done"
    /\ install_pc = "idle" /\ builds = 0
    /\ temp_dir = {}
    /\ packages_layer.exists /\ packages_layer.metadata = InvalidMetadata

\* project.toml declares no packages: the table is missing, is empty, or has
\* an empty install array
DeclaresNoPackages ==
    project_toml \in {ProjectToml("none", NoInstallKey), ProjectToml("table", NoInstallKey),
                      ProjectToml("table", InstallArray(<<>>))}

\* C18: when project.toml declares no packages the only step of build is its
\* return of success: no release file or package index is requested, nothing
\* is resolved and no layer is created or modified.
C18_Step ==
    DeclaresNoPackages
       => /\ build_pc = "start"
          /\ build_pc' = "done"
          /\ build_result' = Ok
          /\ UNCHANGED <<resolverVars, installVars, indexVars>>

C18_EmptyInstallIsNoOp == [][C18_Step]_vars

\* build returned success on an empty install array with the layers of an
\* earlier build in place
C18_Witness ==
    /\ project_toml = ProjectToml("table", InstallArray(<<>>))
    /\ build_pc = "done"
    /\ build_result = Ok
    /\ index_builds = 0 /\ response = NoResponse
    /\ requested = <<>>
    /\ builds = 0 /\ install_layer_state.state = "None"
    /\ release_file_layer = StaleLayer
    /\ packages_layer.exists

(***************************************************************************)
(* Properties of the HTTP client.                                          *)
(***************************************************************************)
\* every attempt of the current GET but the last was a transient failure,
\* where transient is what the given predicate says
OnlyAfter(transient(_)) ==
    \A i \in 1..Len(attempts) - 1 : transient(attempts[i])

TransientAsStated(outcome) == outcome \in {"connect", "503"}

\* the last attempt allowed failed and that failure, nothing else, is what the
\* task got; a task never sends its GET again
ReturnsLastFailure ==
    /\ http_pc = "returned" => http_result = <<attempts[Len(attempts)]>>
    /\ http_pc = "idle" /\ http_url # ""
         => get_result[http_url] = error_for_status(attempts[Len(attempts)])
    /\ \A u \in Urls : get_result[u] # "none" /\ http_pc # "idle" => http_url # u

\* C19 as stated: a GET is attempted at most 5 times in total, again only
\* after a connection error or a 5xx response.
C19_AsStated ==
    /\ Len(attempts) <= 5
    /\ OnlyAfter(TransientAsStated)
    /\ ReturnsLastFailure

\* C19, amended: a GET is attempted at most 6 times in total, the first
\* attempt and up to 5 retries, again only after a transient failure (a
\* connection error, a 5xx response, or a 408 or 429 response); when the last
\* attempt allowed fails, its failure is returned to the task that sent the
\* GET and the task does not send it again.
C19_AtMostFiveRetries ==
    /\ Len(attempts) <= max_n_retries + 1
    /\ n_past_retries <= max_n_retries
    /\ Len(attempts) \in {n_past_retries, n_past_retries + 1}
    /\ OnlyAfter(Transient)
    /\ ReturnsLastFailure

\* the release file was requested, every attempt met a 503, and the task got
\* the error of the sixth
C19_Witness ==
    /\ http_url = "InRelease"
    /\ attempts = <<"503", "503", "503", "503", "503", "503">>
    /\ n_past_retries = max_n_retries
    /\ http_pc = "idle"
    /\ get_result["InRelease"] = "Reqwest"

(***************************************************************************)
(* Properties of the environment.                                          *)
(***************************************************************************)
Numerals == {"0", "1", "2", "3", "4", "5", "6", "7", "8", "9"}

\* a file named *.so or *.so.N...
SharedLibraryName(name) ==
    \E i \in 2..Len(name) :
       /\ name[i] = "so"
       /\ ~(i = 2 /\ name[1] = "")
       /\ \A j \in (i + 1)..Len(name) : name[j] \in Numerals

SharedLibraries == {f \in install_tree : SharedLibraryName(f[Len(f)])}

\* the directories of a tree
DirsOf(tree) == UNION {{SubSeq(f, 1, n) : n \in 1..(Len(f) - 1)} : f \in tree}

UnderRoots(dir) == \E i \in 1..Len(LibraryRoots) : IsPrefix(LibraryRoots[i], dir)

\* the directories in and under the roots that hold a shared library
\* themselves, and those that hold one at any depth
DirectlyContaining == {Parent(f) : f \in SharedLibraries} \cap {d \in DirsOf(install_tree) : UnderRoots(d)}

TransitivelyContaining ==
    {d \in DirsOf(install_tree) : UnderRoots(d) /\ \E f \in SharedLibraries : IsPrefix(d, f)}

\* the first of the roots, in the order listed, that the directory is under
RootOf(dir) ==
    CHOOSE i \in 1..Len(LibraryRoots) :
       /\ IsPrefix(LibraryRoots[i], dir)
       /\ \A j \in 1..(i - 1) : ~IsPrefix(LibraryRoots[j], dir)

\* each directory once; the roots in the order listed, every directory with
\* the first root it is under; under a root the longest path first and the
\* root itself last; no directory outside the roots
ListedOnceInOrder(paths) ==
    /\ \A i, j \in 1..Len(paths) : paths[i] = paths[j] => i = j
    /\ \A i \in 1..Len(paths) : UnderRoots(paths[i])
    /\ \A i, j \in 1..Len(paths) :
          i < j => /\ RootOf(paths[i]) <= RootOf(paths[j])
                   /\ RootOf(paths[i]) = RootOf(paths[j])
                        => /\ PathLen(paths[i]) >= PathLen(paths[j])
                           /\ paths[i] # LibraryRoots[RootOf(paths[i])]

\* C20 as stated: every directory under the roots that transitively contains
\* a shared library is in LD_LIBRARY_PATH and in the identical LIBRARY_PATH,
\* once and in order.
C20_AsStated ==
    env_pc = "configured"
       => /\ layer_env.LIBRARY_PATH = layer_env.LD_LIBRARY_PATH
          /\ TransitivelyContaining \subseteq Range(layer_env.LD_LIBRARY_PATH)
          /\ ListedOnceInOrder(layer_env.LD_LIBRARY_PATH)

\* C20, amended: every directory under the roots that directly contains a
\* shared library, and each of the four roots, is in LD_LIBRARY_PATH and in
\* the identical LIBRARY_PATH, once and in order; a directory that only has
\* one in a directory below it need not be.
C20_LibraryPathsListDirectParents ==
    env_pc = "configured"
       => /\ layer_env.LIBRARY_PATH = layer_env.LD_LIBRARY_PATH
          /\ DirectlyContaining \subseteq Range(layer_env.LD_LIBRARY_PATH)
          /\ Range(LibraryRoots) \subseteq Range(layer_env.LD_LIBRARY_PATH)
          /\ ListedOnceInOrder(layer_env.LD_LIBRARY_PATH)

\* a tree with libraries next to a root, nested below one, two levels below
\* one and outside the roots: n2 has a library only in n2/deep and is not
\* listed
C20_Witness ==
    /\ env_pc = "configured"
    /\ install_tree =
          {PathOf(<<"usr", "lib", "x86_64-linux-gnu", "n1">>, <<"lib", "so", "2">>),
           PathOf(<<"usr", "lib", "n2", "deep">>, <<"lib", "so">>),
           PathOf(<<"lib", "n4">>, <<"lib", "so", "3", "0">>),
           PathOf(<<"usr", "share">>, <<"lib", "so">>)}
    /\ layer_env.LD_LIBRARY_PATH =
          <<<<Dir("usr"), Dir("lib"), multiarch_name, Dir("n1")>>,
            <<Dir("usr"), Dir("lib"), multiarch_name>>,
            <<Dir("usr"), Dir("lib"), Dir("n2"), Dir("deep")>>,
            <<Dir("usr"), Dir("lib")>>,
            <<Dir("lib"), multiarch_name>>,
            <<Dir("lib"), Dir("n4")>>,
            <<Dir("lib")>>>>

(***************************************************************************)
(* Properties of the functions on text.                                    *)
(***************************************************************************)
\* a text without its leading slashes
RECURSIVE WithoutLeadingSlashes(_)
WithoutLeadingSlashes(text) ==
    IF text # <<>> /\ Head(text) = "/" THEN WithoutLeadingSlashes(Tail(text)) ELSE text

\* the line the claim expects for a line of the file
RewrittenAsClaimed(line) ==
    IF line # <<>> /\ Head(line) = "prefix="
    THEN <<"prefix=">> \o install_path \o <<"/">> \o WithoutLeadingSlashes(Tail(line))
    ELSE line

\* C21: every line that begins with prefix= is written as prefix=, the layer
\* root, a slash and the old value without its leading slashes; every other
\* line is written as it was; the lines keep their order.
C21_PrefixLinesRewritten ==
    (fn_pc = "done" /\ package_config # <<>>)
       => /\ Len(new_contents) = Len(package_config)
          /\ \A i \in 1..Len(package_config) :
                new_contents[i] = RewrittenAsClaimed(package_config[i].text)

\* prefix=//usr became prefix=/L/usr and the line after it stayed
C21_Witness ==
    /\ fn_pc = "done"
    /\ lines(package_config) = <<<<"prefix=", "/", "/", "usr">>, <<"exec_", "prefix=", "/", "usr">>>>
    /\ new_contents = <<<<"prefix=", "/", "L", "/", "usr">>, <<"exec_", "prefix=", "/", "usr">>>>

\* the *.pc file the .deb of package n of this build ships
ShippedPackageConfig(n) == PackageConfigOf(DebBytes(n, InstallPackage(n).version))

\* the line with the layer root put before its value once
PrefixedOnce(line) ==
    IF line # <<>> /\ Head(line) = "prefix="
    THEN <<"prefix=">> \o install_path \o <<"/">> \o WithoutLeadingSlashes(Tail(line))
    ELSE line

\* C34: after any sequence of builds, every prefix= line of a *.pc file in the
\* packages layer is the line the .deb ships with the layer root put before
\* its value exactly once: no build rewrites a file an earlier build rewrote.
C34_PrefixRewrittenOnce ==
    install_pc = "done" =>
        \A n \in InstallNames :
            package_config_files[n] # NoFile =>
                /\ n \in InstallListNames
                /\ Len(package_config_files[n]) = Len(ShippedPackageConfig(n))
                /\ \A i \in 1..Len(package_config_files[n]) :
                      package_config_files[n][i].text
                          = PrefixedOnce(ShippedPackageConfig(n)[i].text)

\* the second of two builds with the same packages and distribution is done
C34_Witness ==
    /\ builds = 2
    /\ install_pc = "done"
    /\ old_metadata = packages_layer.metadata
    /\ InstallListNames = {"a", "b"}
    /\ package_config_files["a"][1].text = <<"prefix=", "/", "L", "/", "usr">>
    /\ package_config_files["b"][2].text = <<"prefix=", "/", "L", "/", "opt">>

\* the stanza has a line of the key: the key, a colon, the value
HasKey(key) == \E line \in stanza : Len(line) >= 2 /\ line[1] = key /\ line[2] = ":"

\* C22: parse_parallel succeeds iff the stanza has the keys Package, Version,
\* Filename and SHA256; otherwise the error is that of the first key missing
\* in this order, with the package name for all but Package; Depends,
\* Pre-Depends and Provides never decide the outcome.
C22_FirstMissingKeyIsReported ==
    (fn_pc = "done" /\ repository_package.type # "none")
       => /\ repository_package.type = "Ok"
               <=> \A key \in {PACKAGE_KEY, VERSION_KEY, FILENAME_KEY, SHA256_KEY} : HasKey(key)
          /\ ~HasKey(PACKAGE_KEY) => repository_package = ParseErr("MissingPackageName", <<>>)
          /\ (HasKey(PACKAGE_KEY) /\ ~HasKey(VERSION_KEY))
                => repository_package = ParseErr("MissingVersion", <<"a">>)
          /\ (HasKey(PACKAGE_KEY) /\ HasKey(VERSION_KEY) /\ ~HasKey(FILENAME_KEY))
                => repository_package = ParseErr("MissingFilename", <<"a">>)
          /\ (HasKey(PACKAGE_KEY) /\ HasKey(VERSION_KEY) /\ HasKey(FILENAME_KEY)
                /\ ~HasKey(SHA256_KEY))
                => repository_package = ParseErr("MissingSha256", <<"a">>)
          /\ repository_package.type = "Ok"
                => /\ repository_package.package.depends # <<>> <=> HasKey(DEPENDS_KEY)
                   /\ repository_package.package.pre_depends # <<>> <=> HasKey(PRE_DEPENDS_KEY)
                   /\ repository_package.package.provides # <<>> <=> HasKey(PROVIDES_KEY)

\* a stanza without Version and without SHA256, and without the optional
\* fields, was refused for its Version
C22_Witness ==
    /\ fn_pc = "done"
    /\ stanza = {<<"Package", ":", " ", "a">>, <<"Filename", ":", " ", "pool/a.deb", " ">>,
                 <<"Package", "-Type", ":", " ", "deb">>}
    /\ repository_package = ParseErr("MissingVersion", <<"a">>)

\* a stanza with the four keys and nothing else was repository_package
C22_ParsedWithoutOptionalFields ==
    /\ fn_pc = "done"
    /\ repository_package.type = "Ok"
    /\ repository_package.package.name = <<"a">> /\ repository_package.package.version = <<"1", ":", "2">>
    /\ repository_package.package.filename = <<"pool/a.deb">>
    /\ repository_package.package.depends = <<>> /\ repository_package.package.pre_depends = <<>>
    /\ repository_package.package.provides = <<>>

\* the text matches ^[a-z0-9][a-z0-9+.-]*$ and has two characters or more
MatchesPackageNamePattern(text) ==
    /\ Len(text) >= 2
    /\ text[1] \in LowerCaseLetters \cup Digits
    /\ \A i \in 2..Len(text) : text[i] \in LowerCaseLetters \cup Digits \cup {"+", ".", "-"}

\* C23: PackageName::from_str(s) succeeds iff s matches ^[a-z0-9][a-z0-9+.-]*$
\* and has at least two characters; then as_str and Display give back s; on
\* failure the error carries s.
C23_ValidNamesRoundTrip ==
    (fn_pc = "done" /\ from_str_result.type # "none")
       => /\ from_str_result.type = "Ok" <=> MatchesPackageNamePattern(from_str_value)
          /\ from_str_result.type = "Ok" => as_str(from_str_result) = from_str_value
          /\ from_str_result.type # "Ok"
                => from_str_result = [type |-> "ParsePackageNameError", name |-> from_str_value]

\* g++ was accepted and is given back as it was
C23_Witness ==
    /\ fn_pc = "done"
    /\ from_str_value = <<"a", "+", "+">>
    /\ from_str_result.type = "Ok"
    /\ as_str(from_str_result) = <<"a", "+", "+">>

\* a one-character name, a name with an upper case letter and one that starts
\* with a sign were refused
C23_RefusedNameHappens ==
    /\ fn_pc = "done"
    /\ from_str_value \in {<<"a">>, <<"a", "A", "z">>, <<"+", "a">>}
    /\ from_str_result = [type |-> "ParsePackageNameError", name |-> from_str_value]

\* the entries of the two fields
EntriesOfFields ==
    {relationships.pre_depends.entries[i] : i \in 1..Len(relationships.pre_depends.entries)}
       \cup {relationships.depends.entries[i] : i \in 1..Len(relationships.depends.entries)}

\* the longest beginning of the text that has none of the characters
UpTo(text, stops) ==
    LET n == CHOOSE n \in 0..Len(text) :
                 /\ \A i \in 1..n : text[i] \notin stops
                 /\ (n < Len(text) => text[n + 1] \in stops)
    IN SubSeq(text, 1, n)

WithoutTrailingAny(text) ==
    IF Len(text) >= 2 /\ SubSeq(text, Len(text) - 1, Len(text)) = <<":", "any">>
    THEN SubSeq(text, 1, Len(text) - 2)
    ELSE text

\* the entry without the white space around it
Trimmed(entry) ==
    LET solid == {i \in 1..Len(entry) : entry[i] \notin WhiteSpace}
    IN IF solid = {} THEN <<>>
       ELSE SubSeq(entry, CHOOSE i \in solid : \A j \in solid : i <= j,
                          CHOOSE i \in solid : \A j \in solid : i >= j)

\* C24: get_dependencies returns exactly the set of the names of the
\* comma-separated entries of pre_depends and depends, each entry trimmed, cut
\* at its first white space, and without a trailing :any; of an alternative
\* a | b only a, no version or architecture restriction, and nothing for an
\* empty entry.
C24_AsStated ==
    fn_pc = "done"
       => dependency_names =
              {WithoutTrailingAny(UpTo(Trimmed(entry), WhiteSpace)) : entry \in EntriesOfFields}
                 \ {<<>>}

\* What get_dependencies does return: the names of the comma-separated entries
\* of pre_depends and depends, each entry trimmed and cut at its first space
\* and at its first colon, nothing for an entry that has no name.
C24_NamesUpToFirstSpaceOrColon ==
    fn_pc = "done"
       => dependency_names = {UpTo(Trimmed(entry), {" ", ":"}) : entry \in EntriesOfFields} \ {<<>>}

\* the dependencies of Pre-Depends: a | b and Depends: a:any with an empty
\* entry after it
C24_VariationsAreRead ==
    /\ fn_pc = "done"
    /\ relationships.pre_depends = Field(<<<<" ", "a", " ", "|", " ", "b">>>>)
    /\ relationships.depends = Field(<<<<"a", ":", "any">>, <<>>>>)
    /\ dependency_names = {<<"a">>}

\* the packages given to add_package so far
AddedPackages == {add_package_calls[i] : i \in 1..Len(add_package_calls)}

\* C25: after any sequence of add_package calls packages_indexed is the number
\* of calls; for every p added and every v of p.provides_dependencies(),
\* get_providers(v) has p.name; and get_providers(n) is empty for a name n
\* that no added package provides, also when a package is named n.
C25_ProvidersAndCount ==
    /\ package_index.packages_indexed = Len(add_package_calls)
    /\ \A p \in AddedPackages : \A v \in provides_dependencies(p) :
          p.name \in get_providers(package_index, v)
    /\ \A n \in Names :
          (\A p \in AddedPackages : n \notin provides_dependencies(p))
             => get_providers(package_index, n) = {}

\* a, b that provides v and c, and the package named v were added
C25_Witness ==
    /\ Len(add_package_calls) = 3
    /\ {p.name : p \in AddedPackages} = {"a", "b", "v"}
    /\ get_providers(package_index, "v") = {"b"}
    /\ get_providers(package_index, "c") = {"b"}
    /\ get_providers(package_index, "a") = {}
    /\ Len(package_index.name_to_repository_packages["v"]) = 1

\* C26: a failure of the PGP verification of a release file is reported as a
\* user-facing error that suggests retrying the build and allows filing an
\* issue; a failure to load the certificate is reported as an Internal error.
C26_AsStated ==
    fn_pc = "done"
       => /\ reported_error = "CreatePgpVerifier"
                => error_message = create_error(UserFacing(TRUE, TRUE))
          /\ reported_error = "CreatePgpCertificate" => error_message = create_error(Internal)

\* C26, corrected: a failure of the PGP verification of a release file is
\* reported as an Internal error, without the suggestion to retry the build,
\* and so is a failure to load the certificate.
C26_PgpErrorsAreInternal ==
    fn_pc = "done"
       => /\ reported_error \in {"CreatePgpVerifier", "CreatePgpCertificate"}
                => /\ error_message.error_type = Internal
                   /\ error_message.message_parts
                         = <<"header", "body", "share your buildpack log">>

\* the failed verification of a release file was reported
C26_Witness ==
    /\ fn_pc = "done"
    /\ reported_error = "CreatePgpVerifier"
    /\ error_message.error_type.kind = "Internal"

\* C29: CertHelper::check accepts a message structure iff its first layer is
\* a signature group whose first verification result is Ok; an empty
\* structure, another kind of first layer, a group without results and a first
\* result that is an error are refused, whatever the later layers and results.
C29_FirstResultOfFirstLayerDecides ==
    (fn_pc = "done" /\ check_result.error # "none")
       => (check_result.ok
              <=> /\ Len(message_structure) >= 1
                  /\ message_structure[1].kind = "SignatureGroup"
                  /\ Len(message_structure[1].results) >= 1
                  /\ message_structure[1].results[1] = "good")

\* a first group whose first result is an error was refused although its
\* second result and the first result of the next layer are Ok
C29_Witness ==
    /\ fn_pc = "done"
    /\ message_structure = <<SignatureGroup(<<"bad", "good">>), SignatureGroup(<<"good">>)>>
    /\ ~check_result.ok
    /\ check_result.error = "verification error"

\* a structure was accepted for its first result, with an error after it
C29_AcceptedHappens ==
    /\ fn_pc = "done"
    /\ message_structure = <<SignatureGroup(<<"good", "bad">>), Compression>>
    /\ check_result.ok

(***************************************************************************)
(* Properties of the package index acquisition.                            *)
(***************************************************************************)
\* the InRelease bodies whose first level 0 signature the pinned certificate
\* verifies, and their cleartexts
AcceptedBodies == {b \in InReleaseBodies : b.results # <<>> /\ b.results[1] = "good"}

AcceptedCleartexts == {b.cleartext : b \in AcceptedBodies}

ReleaseFile == LayerFile(release_file_layer, "release")

PackageIndexLayerOf(c) == package_index_layers[list_task[c].url]

\* C5 as the specification states it: when get_package_list fails with
\* ChecksumFailed, the layer of the index is discarded, so that the mismatching
\* package_index file is not left in a layer whose metadata is the listed hash.
C5_ChecksumMismatchDiscardsIndexLayer ==
    \A c \in Components :
        list_task[c].error.type = "ChecksumFailed"
        => /\ list_task[c].error = IndexChecksumFailed(list_task[c].url, list_task[c].hash,
                                                       list_task[c].calculated_hash)
           /\ ~ /\ PackageIndexLayerOf(c).exists
                /\ PackageIndexLayerOf(c).metadata = PackageIndexMetadata(list_task[c].hash)
                /\ LayerFile(PackageIndexLayerOf(c), "package_index") # <<>>

\* the decoded index of the component whose compressed bytes have the hash
VerifiedIndexes(c, hash) ==
    {GzipDecode(IndexBytes(c, e)) : e \in {d \in Editions : Sha256(IndexBytes(c, d)) = hash}}

\* C32 as stated: a release layer or a package index layer that is
\* reused (LayerState::Restored) holds a release file, respectively a
\* package_index file, that was written completely and passed verification
\* (the signature check, respectively the SHA-256 listed in the release
\* file); a build that fails between write_metadata and the verification
\* leaves no layer that a later build reuses.
C32_AsStated ==
    /\ release_file_state.state = "Restored" => ReleaseFile \in AcceptedCleartexts
    /\ \A c \in Components :
          list_task[c].state.state = "Restored" =>
              LayerFile(PackageIndexLayerOf(c), "package_index")
                  \in VerifiedIndexes(c, list_task[c].hash)

\* a release layer was reused
C32_RestoredReleaseHappens ==
    /\ index_builds = 2
    /\ release_file_state.state = "Restored"
    /\ ReleaseFile \in AcceptedCleartexts

\* a package index layer was reused
C32_RestoredIndexHappens ==
    /\ index_builds = 2
    /\ \E c \in Components :
          /\ list_task[c].state.state = "Restored"
          /\ LayerFile(PackageIndexLayerOf(c), "package_index")
                \in VerifiedIndexes(c, list_task[c].hash)

EtagsEqual ==
    /\ release_file_layer.exists
    /\ release_file_layer.metadata.valid
    /\ release_file_layer.metadata = ReleaseFileMetadata(response.etag)

C6_Step ==
    /\ (index_pc = "response" /\ index_pc' # "response")
         => IF EtagsEqual
            THEN /\ release_file_state'.state = "Restored"
                 /\ release_file_layer' = release_file_layer
                 /\ index_pc' = "release_ready"
            ELSE /\ release_file_state'.state = "Empty"
                 /\ LayerFile(release_file_layer', "release") = <<>>
                 /\ release_file_layer'.metadata = ReleaseFileMetadata(response.etag)
                 /\ index_pc' = "metadata_written"
    /\ (index_pc' = "release_ready" /\ release_file_state'.state = "Empty")
         => /\ response.body \in AcceptedBodies
            /\ LayerFile(release_file_layer', "release") = response.body.cleartext
            /\ release_file_layer'.metadata = ReleaseFileMetadata(response.etag)

\* C6: cached_layer keeps the release layer, untouched, iff the layer has valid
\* metadata whose etag equals the ETag of the response (None equals None); in
\* every other case the layer is emptied and given the new etag, and
\* get_release returns Ok only with the verified cleartext of this response
\* written to the release file.
C6_ReleaseLayerKeptIffEtagEqual == [][C6_Step]_vars

\* the cached layer had no etag, the response has one: the release file was
\* downloaded, verified and rewritten
C6_Witness ==
    /\ index_builds = 2
    /\ release_old_metadata = ReleaseFileMetadata(None)
    /\ response.etag = <<"e1">>
    /\ release_file_state = LayerState("Empty", "RestoredLayerAction")
    /\ index_pc = "release_ready"
    /\ ReleaseFile = response.body.cleartext

\* the entries of packages_marked_for_install added while resolving the
\* current request
AddedForRequest ==
    {m \in Range(packages_marked_for_install) :
        m.repository_package.name \notin marked_at_start}

\* C11 as the specification states it: every entry added while resolving a
\* requested package R has requested_by equal to R's name, at every depth of
\* the dependency walk.
C11_AsStated ==
    Len(requested) > 0 => \A m \in AddedForRequest : m.requested_by = Request.name

\* the hash a release file lists for the Packages.gz of the component
ListedHash(text, component) ==
    LET entries == text.sha256sum[1]
    IN entries[CHOOSE i \in 1..Len(entries) :
                   /\ entries[i].filename = <<component, "binary-amd64", "Packages.gz">>
                   /\ \A j \in 1..(i - 1) :
                         entries[j].filename # <<component, "binary-amd64", "Packages.gz">>].hash

\* the release file lists a hash for the Packages.gz of the component
Lists(text, component) ==
    /\ text.sha256sum # <<>>
    /\ \E i \in 1..Len(text.sha256sum[1]) :
          text.sha256sum[1][i].filename = <<component, "binary-amd64", "Packages.gz">>

\* C28: the index of a component is fetched from
\* {uri}/dists/{suite}/{component}/binary-{arch}/by-hash/SHA256/{hash} when the
\* release file sets Acquire-By-Hash, else from .../binary-{arch}/Packages.gz;
\* {hash} is the release file's SHA-256 entry for
\* {component}/binary-{arch}/Packages.gz and is also the expected checksum and
\* the cache metadata; without that entry the build fails with
\* MissingPackageIndexReleaseHash, without the section with
\* MissingSha256ReleaseHashes, and the fetch of the component is not started.
C28_IndexUrlAndHashFromRelease ==
    /\ \A c \in Components :
          list_task[c].pc # "none"
             => /\ Lists(release, c)
                /\ list_task[c].hash = ListedHash(release, c)
                /\ list_task[c].url =
                      IF release.acquire_by_hash
                      THEN <<"repo", "dists", "suite", c, "binary-amd64", "by-hash", "SHA256">>
                              \o ListedHash(release, c)
                      ELSE <<"repo", "dists", "suite", c, "binary-amd64", "Packages.gz">>
                /\ list_task[c].pc \in {"opened", "done", "failed"}
                      => package_index_layers[list_task[c].url].metadata
                            = PackageIndexMetadata(ListedHash(release, c))
                /\ list_task[c].error.type = "ChecksumFailed"
                      => list_task[c].error.expected = ListedHash(release, c)
    /\ (index_pc = "fetching" /\ release # <<>>) => \A c \in Components : Lists(release, c)
    /\ (index_pc = "failed" /\ release # <<>> /\ release.sha256sum = <<>>)
          => /\ index_error = MissingSha256ReleaseHashes("repo")
             /\ \A c \in Components : list_task[c].pc = "none"
    /\ (index_pc = "failed" /\ release # <<>> /\ release.sha256sum # <<>>)
          => \A c \in Components :
                ~Lists(release, c)
                   => /\ index_error.type = "MissingPackageIndexReleaseHash"
                      /\ list_task[c].pc = "none"
                      /\ (\A d \in Components \ {c} : Lists(release, d))
                            => index_error = MissingPackageIndexReleaseHash(
                                                 "repo", <<c, "binary-amd64", "Packages.gz">>)

\* the index of main was fetched by its hash and that of universe was being
\* fetched
C28_Witness ==
    /\ index_pc = "fetching"
    /\ release.acquire_by_hash
    /\ list_task["main"].pc = "done"
    /\ list_task["main"].calculated_hash = list_task["main"].hash
    /\ list_task["main"].url = <<"repo", "dists", "suite", "main", "binary-amd64", "by-hash",
                                 "SHA256">> \o Sha256(IndexBytes("main", 1))
    /\ list_task["universe"].pc = "opened"

\* the release file did not list the Packages.gz of universe
C28_MissingHashHappens ==
    /\ index_pc = "failed"
    /\ index_error = MissingPackageIndexReleaseHash("repo",
                                                    <<"universe", "binary-amd64", "Packages.gz">>)
    /\ list_task["universe"].pc = "none"
    /\ list_task["main"].pc = "aborted"

\* the release file had no SHA256 section
C28_MissingSectionHappens ==
    /\ index_pc = "failed"
    /\ index_error = MissingSha256ReleaseHashes("repo")

(***************************************************************************)
(* Properties of the package index.                                        *)
(***************************************************************************)
\* every package of that name that was added
AddedNamed(name) == Range(package_index.name_to_repository_packages[name])

\* the Debian order of versions: epoch, then upstream, then revision
DebianLeq(v, w) ==
    LET x == explode(v)
        y == explode(w)
    IN \/ x[1] < y[1]
       \/ x[1] = y[1] /\ x[2] < y[2]
       \/ x[1] = y[1] /\ x[2] = y[2] /\ x[3] <= y[3]

\* C12: get_highest_available_version(name) is None iff no package of that
\* name was added; otherwise it is an added package of that name whose version
\* is, in the Debian order, not below that of any added package of the name;
\* and every package the resolver marks is that package.
C12_HighestAvailableVersion ==
    /\ \A name \in Names :
          LET h == get_highest_available_version(package_index, name) IN
          /\ h = NoPackage <=> AddedNamed(name) = {}
          /\ AddedNamed(name) # {}
               => /\ h \in AddedNamed(name)
                  /\ \A p \in AddedNamed(name) : DebianLeq(p.version, h.version)
    /\ \A m \in Range(packages_marked_for_install) :
          m.repository_package =
             get_highest_available_version(package_index, m.repository_package.name)

\* versions 1, 1:1 and 2 of a were added in that order, and the resolver
\* marked 1:1
C12_Witness ==
    /\ [i \in 1..Len(package_index.name_to_repository_packages["a"]) |->
           package_index.name_to_repository_packages["a"][i].version]
         = <<PlainVersion(1), VersionString(<<1>>, 1, <<>>), PlainVersion(2)>>
    /\ resolve_pc = "done"
    /\ Len(packages_to_install) = 1
    /\ packages_to_install[1].version = VersionString(<<1>>, 1, <<>>)

\* the index that results when the packages of that name are added in another
\* order: f is a permutation of the positions (packages of other names go to
\* other lists, so their place in the order makes no difference)
AddedInOrder(name, f) ==
    LET ps == package_index.name_to_repository_packages[name] IN
    [package_index EXCEPT
        !.name_to_repository_packages[name] = [i \in 1..Len(ps) |-> ps[f[i]]]]

OrdersOf(name) ==
    LET n == Len(package_index.name_to_repository_packages[name]) IN
    {f \in [1..n -> 1..n] : \A i, j \in 1..n : f[i] = f[j] => i = j}

\* C14 as the specification states it: the package get_highest_available_version
\* returns for a name is the same for every order in which the packages were
\* added, also when two of them have the same name and version but come from
\* different repositories.
C14_AsStated ==
    \A name \in Names : \A f \in OrdersOf(name) :
        get_highest_available_version(AddedInOrder(name, f), name)
            = get_highest_available_version(package_index, name)

(***************************************************************************)
(* Determinism of the resolver.                                            *)
(***************************************************************************)
\* one order in which a HashSet of names may be iterated
NameOrder == <<"a", "b", "c", "v">>

InNameOrder(names) == SelectSeq(NameOrder, LAMBDA n : n \in names)

\* the run of visit in which every get_dependencies() set is iterated in
\* NameOrder: st holds packages_marked_for_install, visit_stack and whether the
\* walk is still Ok
RECURSIVE visit_in_order(_, _, _)
RECURSIVE visit_dependencies_in_order(_, _, _)
visit_in_order(package, skip_dependencies, st) ==
    IF ~st.ok THEN st
    ELSE IF find_system_package_by_name(package, system_packages) THEN st
    ELSE IF find_package_marked_for_install_by_name(package, st.marked) # 0 THEN st
    ELSE LET p == get_highest_available_version(package_index, package) IN
         IF p # NoPackage
         THEN LET entered ==
                     [st EXCEPT
                        !.marked = IndexSetInsert(@,
                                      PackageMarkedForInstall(p, FirstOr(st.stack, package))),
                        !.stack = IndexSetInsert(@, p.name)]
                  walked == visit_dependencies_in_order(
                               InNameOrder(DependenciesToVisit(p, skip_dependencies)),
                               skip_dependencies, entered)
              IN [walked EXCEPT !.stack = IndexSetShiftRemove(@, p.name)]
         ELSE LET providers == get_providers(package_index, package)
                  provider == IF Cardinality(providers) = 1
                              THEN get_highest_available_version(package_index,
                                       CHOOSE n \in providers : TRUE)
                              ELSE NoPackage
              IN IF provider = NoPackage THEN [st EXCEPT !.ok = FALSE]
                 ELSE LET walked == visit_in_order(provider.name, skip_dependencies,
                                       [st EXCEPT !.stack = IndexSetInsert(@, package)])
                      IN [walked EXCEPT !.stack = IndexSetShiftRemove(@, package)]

visit_dependencies_in_order(dependencies, skip_dependencies, st) ==
    IF dependencies = <<>> \/ ~st.ok THEN st
    ELSE visit_dependencies_in_order(Tail(dependencies), skip_dependencies,
            IF should_visit_dependency(Head(dependencies), system_packages, st.marked)
            THEN visit_in_order(Head(dependencies), skip_dependencies, st)
            ELSE st)

\* determine_packages_to_install over the first n requested packages, each
\* visited with a new visit_stack
RECURSIVE resolve_in_order(_)
resolve_in_order(n) ==
    IF n = 0 THEN [marked |-> <<>>, stack |-> <<>>, ok |-> TRUE]
    ELSE visit_in_order(requested[n].name, requested[n].skip_dependencies,
                        [resolve_in_order(n - 1) EXCEPT !.stack = <<>>])

\* C13 as the specification states it: resolution is deterministic, so every
\* run over an index, a system-package set and a requested set marks the
\* packages that the run with the dependencies taken in NameOrder marks, with
\* the same requested_by and in the same order.
C13_AsStated ==
    resolve_pc = "done"
    => /\ resolve_in_order(Len(requested)).ok
       /\ packages_marked_for_install = resolve_in_order(Len(requested)).marked

\* the run that takes the dependencies in NameOrder is one of the runs
C13_InOrderRunHappens ==
    /\ resolve_pc = "done"
    /\ Len(packages_marked_for_install) = 3
    /\ packages_marked_for_install = resolve_in_order(Len(requested)).marked

====
